---- MODULE Spec2Model ----
(***************************************************************************)
(* UserTTSManager: the TTS provider selection and fallback chain.          *)
(*                                                                         *)
(* Two versions of the manager are in the repository:                      *)
(*   "early"  src/server/services/user-tts-manager.ts                      *)
(*            (OpenAI / Groq by preference, then Bark, then Typecast)      *)
(*   "later"  src/unnamed/part_000                                         *)
(*            (cypher override, MyShell / OpenAI / Groq / ElevenLabs by    *)
(*            preference, then the system chain MyShell, ElevenLabs, Groq, *)
(*            OpenAI)                                                      *)
(* One generateTTS request is a sequence of awaits: storage.getUser, then  *)
(* one provider call at a time.  Each action below runs the synchronous    *)
(* code between two awaits.                                                *)
(***************************************************************************)
EXTENDS Integers, Sequences, FiniteSets, TLC

VARIABLES
  variant,       \* which version of the manager runs
  env,           \* process.env: the process-wide API key of each vendor ("" = unset)
  storage,       \* storage.getUser: userId -> user record (found = FALSE: no user)
  instances,     \* the four instance maps: vendor -> (cache key -> instance)
  nextInstance,  \* identity given to the next instance a factory creates
  pc,            \* position of the request: idle, awaitUser, awaitCall, done
  req,           \* the arguments of generateTTS: text, userId, options
  lookup,        \* how storage.getUser ended: pending, found, absent, threw
  user,          \* the local `user` of generateTTS
  pos,           \* index in Chain of the step whose call is awaited (0: none yet)
  calls,         \* the provider calls made by the request, in order
  result,        \* the value generateTTS resolved to (meaningful when pc = "done")
  rejected,      \* TRUE when the promise of generateTTS rejected
  groq,          \* one GroqTTSService.generateTTS call (the Groq provider client)
  events,        \* the instance getter calls and cache clears made, in order
  page,          \* the battle arena page during one handleRecordingComplete
  tasks,         \* concurrent requests to the manager: task -> its position and locals
  moderation     \* one filterContent call of the ContentModerationService

managerVars == <<variant, env, storage, instances, nextInstance, pc, req, lookup,
                 user, pos, calls, result, rejected>>

vars == <<variant, env, storage, instances, nextInstance, pc, req, lookup, user,
          pos, calls, result, rejected, groq, events, page, tasks, moderation>>

----------------------------------------------------------------------------
(* Bounds and input sets *)

\* Providers report an estimated duration; the manager passes it through.
MaxProviderDuration == 1

Variants == {"early", "later"}

\* Vendors that take an API key and are cached per key.
KeyedVendors == {"myshell", "openai", "groq", "elevenlabs"}

UserIds == {"u1", "missing-user"}

\* A text is the sequence of its characters.
Texts ==
  { <<"y", "o">>,
    <<"t", "e", "s", "t", " ", "t", "e", "x", "t">>,
    <<"S", "t", "e", "p", " ", "u", "p", " ", "t", "o", " ", "t", "h", "e", " ",
      "m", "i", "c", " ", "a", "n", "d", " ", "d", "r", "o", "p", " ", "i", "t",
      "!", "!">> }

PreferenceValues == {"", "myshell", "openai", "groq", "elevenlabs", "system"}

UserKeyOf(v) == "uk-" \o v
SystemKeyOf(v) == "sk-" \o v

\* speedMultiplier = -1 stands for an omitted (undefined) optional number,
\* "" for an omitted optional string.
OptionsSet ==
  { [characterId |-> "cypher", characterName |-> "CYPHER-9000", gender |-> "male",
     voiceStyle |-> "aggressive", speedMultiplier |-> 150],
    [characterId |-> "silk", characterName |-> "", gender |-> "",
     voiceStyle |-> "smooth", speedMultiplier |-> -1],
    [characterId |-> "razor", characterName |-> "MC Razor", gender |-> "female",
     voiceStyle |-> "", speedMultiplier |-> 100] }

NoOptions ==
  [characterId |-> "", characterName |-> "", gender |-> "", voiceStyle |-> "",
   speedMultiplier |-> -1]

NoRequest == [text |-> <<>>, userId |-> "", options |-> NoOptions]

NoUser ==
  [found |-> FALSE, preferredTtsService |-> "", openaiApiKey |-> "",
   groqApiKey |-> "", elevenlabsApiKey |-> "", myshellApiKey |-> ""]

Users ==
  [found : {TRUE}, preferredTtsService : PreferenceValues,
   openaiApiKey : {"", UserKeyOf("openai")},
   groqApiKey : {"", UserKeyOf("groq")},
   elevenlabsApiKey : {"", UserKeyOf("elevenlabs")},
   myshellApiKey : {"", UserKeyOf("myshell")}]

NoResult == [audioUrl |-> "", duration |-> -1]

\* JavaScript values of the Groq client's table lookups and arithmetic: a
\* number, undefined, a member inherited from Object.prototype, or NaN.
Number(n) == [kind |-> "number", n |-> n]
Undefined == [kind |-> "undefined", n |-> 0]
Inherited == [kind |-> "object", n |-> 0]
NaN == [kind |-> "NaN", n |-> 0]

\* Longest text given to the Groq client on its own.
MaxGroqTextLen == 2

GroqAlphabet == {"a", "!", "*", "[", "]", " "}

GroqTexts == UNION {[1..n -> GroqAlphabet] : n \in 0..MaxGroqTextLen}

\* The four characters of the tables, an id of no table, and an id that names
\* a member of Object.prototype.
GroqCharacterIds == {"cypher", "venom", "razor", "silk", "mc-nova", "constructor"}

GroqVoiceStyles ==
  {"", "aggressive", "confident", "smooth", "intense", "playful", "melodic"}

GroqGenders == {"", "male", "female"}

\* speedMultiplier in hundredths; -1 stands for an omitted one.
GroqSpeedMultipliers == {-1, 0, 25, 150, 300}

NoSpeechRequest ==
  [model |-> "", voice |-> "", input |-> <<>>, response_format |-> "",
   speed |-> Undefined]

GroqIdle ==
  [pc |-> "idle", text |-> <<>>, characterId |-> "", options |-> NoOptions,
   request |-> NoSpeechRequest, result |-> NoResult, error |-> "",
   failure |-> ""]

\* An optional value of the client: <<>> when it is undefined, <<v>> otherwise.
Missing == <<>>
Some(v) == <<v>>

\* Audio URLs of 26, 100 and 101 characters.
ShortAudioUrl == "data:audio/wav;base64,AAAA"

AudioUrl100 ==
  "data:audio/wav;base64,AAAAAAAAAAAAAAAAAAAAAAAAAAAAAAAAAAAAAAAAAAAAAAAAAAAAAAAAAAAAAAAAAAAAAAAAAAAAAA"

AudioUrl101 ==
  "data:audio/wav;base64,AAAAAAAAAAAAAAAAAAAAAAAAAAAAAAAAAAAAAAAAAAAAAAAAAAAAAAAAAAAAAAAAAAAAAAAAAAAAAAA"

AudioUrls ==
  {Missing, Some(""), Some(ShortAudioUrl), Some(AudioUrl100), Some(AudioUrl101)}

AiResponses ==
  {Missing, Some(""), Some("Weak rhymes."),
   Some("Your flow is frozen, mine is chosen.")}

Scores == {Missing, Some(0), Some(72)}

UserTexts == {Missing, Some("my bars hit hard")}

\* The values submitRound resolves to: nothing, or the result of the round.
RoundResults ==
  {Missing} \cup
  {Some(r) : r \in [userText : UserTexts, aiResponse : AiResponses,
                    audioUrl : AudioUrls, userScore : Scores, aiScore : Scores]}

\* The page before the recording completes; battleId says whether
\* currentBattleId is set, playing is battleState.isPlayingAudio.
PageAt(battleId, playing) ==
  [pc |-> "idle", battleId |-> battleId, result |-> Missing,
   isTranscribing |-> FALSE, isAIResponding |-> FALSE, isPlayingAudio |-> playing,
   liveTranscription |-> "", aiResponse |-> "", currentAiAudio |-> Missing,
   toasts |-> <<>>, timer |-> "none", playUpdates |-> 0, crowdReactions |-> 0]

PageIdle == PageAt(FALSE, FALSE)

\* Two requests to the manager run concurrently.
Tasks == {"t1", "t2"}

\* No instance: what a map returns for a key it does not hold.
NoInstance == [id |-> 0, apiKey |-> "", voiceCloning |-> FALSE]

\* A task before its request; kind becomes "generate" (generateTTS) or
\* "test" (testUserAPIKey).  gets lists the task's instance lookups, held is
\* the instance its awaited call was started on, usedInstance the instance
\* the settled call ran on, tested how the vendor's test ended ("true",
\* "false" or "threw") and verdict the boolean testUserAPIKey returned.
TaskIdle ==
  [kind |-> "none", pc |-> "idle", text |-> <<>>, userId |-> "",
   options |-> NoOptions, service |-> "", user |-> NoUser, lookup |-> "pending",
   pos |-> 0, gets |-> <<>>, held |-> NoInstance, usedInstance |-> NoInstance,
   failures |-> 0, result |-> NoResult, tested |-> "none", verdict |-> "none",
   rejected |-> FALSE]

TasksIdle == [t \in Tasks |-> TaskIdle]

\* The contents handed to the moderation service.
Contents == {"diss track", "clean bars"}

SafetyLevels == {"strict", "moderate"}

\* Replies of the classifier, as sequences of characters.
ClassifierReplies ==
  { <<"s", "a", "f", "e">>,
    <<"u", "n", "s", "a", "f", "e">>,
    <<"u", "n", "s", "a", "f", "e", "\n", "S", "1">>,
    <<"u", "n", "s", "a", "f", "e", "\n", "S", "2">>,
    <<"u", "n", "s", "a", "f", "e", "\n", "S", "2", "\n", "S", "1", "0">>,
    <<"U", "n", "s", "a", "f", "e", "\n", "S", "3">>,
    <<"\n", "u", "n", "s", "a", "f", "e", "\n", " ", "S", "4">>,
    <<"m", "a", "y", "b", "e">>,
    <<>> }

\* What response.json() resolves with: a completion whose message content
\* is a reply, a completion with no message content, an empty choices
\* array, and an object without choices.
ResponseBodies ==
  {[shape |-> "content", content |-> r] : r \in ClassifierReplies} \cup
  {[shape |-> sh, content |-> <<>>] : sh \in {"noContent", "noChoice", "noChoices"}}

\* { isSafe: true }
SafeResult == [isSafe |-> TRUE, hasCategories |-> FALSE, categories |-> <<>>]

NoFiltered == [content |-> "", wasFlagged |-> FALSE, reason |-> <<>>]

\* The moderation service before a call of filterContent; envVar is
\* process.env.GROQ_API_KEY_ENV_VAR.
ModerationIdle ==
  [pc |-> "idle", envVar |-> "", content |-> "", safetyLevel |-> "",
   outcome |-> "none", reply |-> <<>>, moderationResult |-> SafeResult,
   filtered |-> NoFiltered, rejected |-> FALSE]

EmptyMap == [k \in {} |-> 0]

----------------------------------------------------------------------------
(* Helpers of the language *)

\* JavaScript a || b on strings: the empty (or missing) string is falsy.
Or(a, b) == IF a # "" THEN a ELSE b

UserApiKey(u, v) ==
  CASE v = "openai" -> u.openaiApiKey
    [] v = "groq" -> u.groqApiKey
    [] v = "elevenlabs" -> u.elevenlabsApiKey
    [] v = "myshell" -> u.myshellApiKey
    [] OTHER -> ""

\* process.env.<VENDOR>_API_KEY
EnvApiKey(v) == IF v \in KeyedVendors THEN env[v] ELSE ""

----------------------------------------------------------------------------
(* The steps of generateTTS and useSystemTTS *)

\* Mutant: the character override placed after the preference blocks.
ChainOverrideAfterPreference ==
  IF variant = "later"
  THEN <<"pref_myshell", "pref_openai", "pref_groq", "pref_elevenlabs", "override",
         "sys_myshell", "sys_elevenlabs", "sys_groq", "sys_openai">>
  ELSE <<"pref_openai", "pref_groq", "sys_bark", "sys_typecast">>

\* Mutant: system Groq tried second, before system ElevenLabs.
ChainGroqSecond ==
  IF variant = "later"
  THEN <<"override", "pref_myshell", "pref_openai", "pref_groq", "pref_elevenlabs",
         "sys_myshell", "sys_groq", "sys_elevenlabs", "sys_openai">>
  ELSE <<"pref_openai", "pref_groq", "sys_bark", "sys_typecast">>

\* Mutant: Typecast tried before Bark.
ChainTypecastFirst ==
  IF variant = "later"
  THEN <<"override", "pref_myshell", "pref_openai", "pref_groq", "pref_elevenlabs",
         "sys_myshell", "sys_elevenlabs", "sys_groq", "sys_openai">>
  ELSE <<"pref_openai", "pref_groq", "sys_typecast", "sys_bark">>

\* Mutant: the system chain ends by trying MyShell once more.
ChainMyShellAgain ==
  IF variant = "later"
  THEN <<"override", "pref_myshell", "pref_openai", "pref_groq", "pref_elevenlabs",
         "sys_myshell", "sys_elevenlabs", "sys_groq", "sys_openai", "sys_myshell">>
  ELSE <<"pref_openai", "pref_groq", "sys_bark", "sys_typecast", "sys_bark">>

\* The if-blocks of generateTTS followed by those of useSystemTTS, in
\* program order; control falls from one block into the next.
Chain ==
  IF variant = "later"
  THEN <<"override", "pref_myshell", "pref_openai", "pref_groq", "pref_elevenlabs",
         "sys_myshell", "sys_elevenlabs", "sys_groq", "sys_openai">>
  ELSE <<"pref_openai", "pref_groq", "sys_bark", "sys_typecast">>

StepVendor(step) ==
  CASE step = "override" -> "groq"
    [] step \in {"pref_myshell", "sys_myshell"} -> "myshell"
    [] step \in {"pref_openai", "sys_openai"} -> "openai"
    [] step \in {"pref_groq", "sys_groq"} -> "groq"
    [] step \in {"pref_elevenlabs", "sys_elevenlabs"} -> "elevenlabs"
    [] step = "sys_bark" -> "bark"
    [] step = "sys_typecast" -> "typecast"

StepPhase(step) ==
  CASE step = "override" -> "override"
    [] step \in {"pref_myshell", "pref_openai", "pref_groq", "pref_elevenlabs"}
         -> "preference"
    [] OTHER -> "system"

\* Mutant: the later version keeps the early default.
PreferredServiceDefaultSystem(u) == Or(u.preferredTtsService, "system")

\* const preferredService = user.preferredTtsService || <default>
PreferredService(u) ==
  Or(u.preferredTtsService, IF variant = "later" THEN "myshell" ELSE "system")

\* const apiKey = user.groqApiKey || process.env.GROQ_API_KEY (cypher override)
OverrideKey(u) == Or(u.groqApiKey, EnvApiKey("groq"))

\* Mutant: the process-wide key read before the user's own.
PreferenceKeyEnvFirst(v, u) ==
  IF variant = "later" /\ v # "openai"
  THEN Or(EnvApiKey(v), UserApiKey(u, v))
  ELSE UserApiKey(u, v)

\* The apiKey of the preference block of vendor v: the user's key, and in the
\* later variant, for every vendor but OpenAI, the process-wide key after it.
PreferenceKey(v, u) ==
  IF variant = "later" /\ v # "openai"
  THEN Or(UserApiKey(u, v), EnvApiKey(v))
  ELSE UserApiKey(u, v)

\* Mutant: a system block that does not look at its process-wide key.
SystemGuardUngated(v) == TRUE

\* if (process.env.<VENDOR>_API_KEY) in useSystemTTS of the later variant;
\* the early variant calls Bark and Typecast without any condition.
SystemGuard(v) ==
  IF variant = "later" THEN EnvApiKey(v) # "" ELSE TRUE

\* The apiKey a step hands to the instance getter ("" when the step has none).
StepKey(step, u) ==
  CASE StepPhase(step) = "override" -> OverrideKey(u)
    [] StepPhase(step) = "preference" -> PreferenceKey(StepVendor(step), u)
    [] OTHER -> EnvApiKey(StepVendor(step))

\* Mutant: the preference blocks do not compare the preferred service.
StepGuardAnyPreference(step, u, options) ==
  CASE StepPhase(step) = "override" ->
         options.characterId = "cypher" /\ OverrideKey(u) # ""
    [] StepPhase(step) = "preference" ->
         PreferenceKey(StepVendor(step), u) # ""
    [] OTHER -> SystemGuard(StepVendor(step))

\* The conditions under which a block makes its provider call.
StepGuard(step, u, options) ==
  CASE StepPhase(step) = "override" ->
         options.characterId = "cypher" /\ OverrideKey(u) # ""
    [] StepPhase(step) = "preference" ->
         /\ PreferredService(u) = StepVendor(step)
         /\ PreferenceKey(StepVendor(step), u) # ""
    [] OTHER -> SystemGuard(StepVendor(step))

\* Mutant: the voice style is not forwarded (the provider's default applies).
PassedOptionsDefaultStyle(step, options) ==
  IF step \in {"sys_bark", "sys_typecast"}
  THEN EmptyMap
  ELSE IF variant = "later"
       THEN [voiceStyle |-> "",
             characterName |-> options.characterName,
             gender |-> options.gender,
             speedMultiplier |-> options.speedMultiplier]
       ELSE [voiceStyle |-> "",
             characterName |-> options.characterName,
             gender |-> options.gender]

\* The option fields a step passes to the provider, taken from `options`.
PassedOptions(step, options) ==
  IF step \in {"sys_bark", "sys_typecast"}
  THEN EmptyMap
  ELSE IF variant = "later"
       THEN [voiceStyle |-> options.voiceStyle,
             characterName |-> options.characterName,
             gender |-> options.gender,
             speedMultiplier |-> options.speedMultiplier]
       ELSE [voiceStyle |-> options.voiceStyle,
             characterName |-> options.characterName,
             gender |-> options.gender]

\* Mutant: storage.getUser awaited before the try block.
EnclosingCatchGetUserOutside(site) ==
  IF site = "getUser" THEN "none"
  ELSE IF site = "userNotFound" THEN "outer" ELSE "local"

\* Which catch block receives an error thrown at a site:
\* "local" (the block's own try/catch, control falls through),
\* "outer" (the catch of generateTTS), "none" (the promise rejects).
EnclosingCatch(site) ==
  IF site \in {"getUser", "userNotFound"} THEN "outer" ELSE "local"

\* Mutant: the estimate rounded up instead of down.
SentinelRoundUp(text) == [audioUrl |-> "", duration |-> (Len(text) + 14) \div 15]

\* The terminal empty-audio result.
Sentinel(text) == [audioUrl |-> "", duration |-> Len(text) \div 15]

\* Mutant: a failed block is entered again.
NextStepRetry(i, u, options) ==
  LET later == {j \in i..Len(Chain) : j > 0 /\ StepGuard(Chain[j], u, options)}
  IN IF later = {} THEN 0 ELSE CHOOSE j \in later : \A k \in later : j <= k

\* Mutant: the system chain's MyShell block awaits its call without
\* returning the value.
ReturnsOnSuccessButSystemMyShell(step) == step # "sys_myshell"

\* return await instance.generateTTS(...): a block whose call resolves ends
\* the request with that value.
ReturnsOnSuccess(step) == TRUE

\* Mutant: a missing user is not an error.
UserMissingSoftSkip(u) == FALSE

\* if (!user) throw new Error('User not found')
UserMissing(u) == ~u.found

\* Index of the first block after i that makes a call; 0 when none does.
NextStep(i, u, options) ==
  LET later == {j \in (i + 1)..Len(Chain) : StepGuard(Chain[j], u, options)}
  IN IF later = {} THEN 0 ELSE CHOOSE j \in later : \A k \in later : j <= k

----------------------------------------------------------------------------
(* The instance cache *)

\* Mutant: the MyShell key is the apiKey alone.
CacheKeyIgnoringFlag(v, apiKey, voiceCloning) == apiKey

\* const key = `${apiKey}_${voiceCloning}` for MyShell; the apiKey otherwise.
CacheKey(v, apiKey, voiceCloning) ==
  IF v = "myshell"
  THEN apiKey \o "_" \o (IF voiceCloning THEN "true" ELSE "false")
  ELSE apiKey

\* Mutant: the getter constructs an instance on every call.
GetInstanceMapNoReuse(m, v, apiKey, voiceCloning) ==
  LET key == CacheKey(v, apiKey, voiceCloning)
  IN [k \in DOMAIN m \cup {key} |->
        IF k = key
        THEN [id |-> nextInstance, apiKey |-> apiKey, voiceCloning |-> voiceCloning]
        ELSE m[k]]

\* get<Vendor>Instance: the map after the call (a miss stores a new instance).
GetInstanceMap(m, v, apiKey, voiceCloning) ==
  LET key == CacheKey(v, apiKey, voiceCloning)
  IN IF key \in DOMAIN m
     THEN m
     ELSE [k \in DOMAIN m \cup {key} |->
             IF k = key
             THEN [id |-> nextInstance, apiKey |-> apiKey, voiceCloning |-> voiceCloning]
             ELSE m[k]]

----------------------------------------------------------------------------
(* The Groq provider client: GroqTTSService *)

\* text.replace(/c/g, r) for a pattern of one character c.
RECURSIVE ReplaceAll(_, _, _)
ReplaceAll(s, ch, r) ==
  IF s = <<>>
  THEN <<>>
  ELSE (IF Head(s) = ch THEN r ELSE <<Head(s)>>) \o ReplaceAll(Tail(s), ch, r)

\* Position in s of the first `close` that no line break precedes (`.` does
\* not match a line break); 0 when there is none.
RECURSIVE ClosingAt(_, _)
ClosingAt(s, close) ==
  IF s = <<>> \/ Head(s) = "\n"
  THEN 0
  ELSE IF Head(s) = close
       THEN 1
       ELSE LET k == ClosingAt(Tail(s), close)
            IN IF k = 0 THEN 0 ELSE k + 1

\* text.replace(/<open>.*?<close>/g, ''): every shortest stretch from an
\* `open` to the next `close` is removed, left to right.
RECURSIVE RemoveEnclosed(_, _, _)
RemoveEnclosed(s, open, close) ==
  IF s = <<>>
  THEN <<>>
  ELSE IF Head(s) = open /\ ClosingAt(Tail(s), close) > 0
       THEN RemoveEnclosed(SubSeq(s, ClosingAt(Tail(s), close) + 2, Len(s)),
                           open, close)
       ELSE <<Head(s)>> \o RemoveEnclosed(Tail(s), open, close)

\* The characters \s matches, of those the texts here are made of.
IsSpace(c) == c \in {" ", "\n", "\t"}

\* text.replace(/\s+/g, ' ')
RECURSIVE NormalizeWhitespace(_)
NormalizeWhitespace(s) ==
  IF s = <<>>
  THEN <<>>
  ELSE IF IsSpace(Head(s))
       THEN IF Len(s) > 1 /\ IsSpace(s[2])
            THEN NormalizeWhitespace(Tail(s))
            ELSE <<" ">> \o NormalizeWhitespace(Tail(s))
       ELSE <<Head(s)>> \o NormalizeWhitespace(Tail(s))

\* text.trim()
RECURSIVE Trim(_)
Trim(s) ==
  IF s = <<>>
  THEN <<>>
  ELSE IF IsSpace(Head(s))
       THEN Trim(Tail(s))
       ELSE IF IsSpace(s[Len(s)])
            THEN Trim(SubSeq(s, 1, Len(s) - 1))
            ELSE s

\* Names every object literal inherits from Object.prototype.
ObjectPrototypeKeys ==
  {"constructor", "toString", "toLocaleString", "valueOf", "hasOwnProperty",
   "isPrototypeOf", "propertyIsEnumerable", "__proto__"}

\* table[key] of an object literal whose own values are numbers.
Lookup(table, key) ==
  IF key \in DOMAIN table
  THEN Number(table[key])
  ELSE IF key \in ObjectPrototypeKeys THEN Inherited ELSE Undefined

\* v || d for a default number d: undefined, NaN and 0 are falsy.
OrNumber(v, d) ==
  IF v.kind \in {"undefined", "NaN"} \/ (v.kind = "number" /\ v.n = 0)
  THEN Number(d)
  ELSE v

\* a * b: NaN unless both operands are numbers (a function converts to NaN).
Times(a, b) ==
  IF a.kind = "number" /\ b.kind = "number" THEN Number(a.n * b.n) ELSE NaN

\* Math.min(a, b) and Math.max(a, b): NaN when an operand is NaN.
MathMin(a, b) ==
  IF a.kind # "number" \/ b.kind # "number"
  THEN NaN
  ELSE IF a.n <= b.n THEN a ELSE b

MathMax(a, b) ==
  IF a.kind # "number" \/ b.kind # "number"
  THEN NaN
  ELSE IF a.n >= b.n THEN a ELSE b

\* characterSpeeds and styleModifiers, in hundredths.
CharacterSpeeds == [cypher |-> 75, venom |-> 90, razor |-> 110, silk |-> 100]

StyleModifiers ==
  [aggressive |-> 120, confident |-> 100, smooth |-> 95, intense |-> 115,
   playful |-> 110]

\* Mutant: the upper limit is not applied.
CalculateDynamicSpeedNoCeiling(characterId, voiceStyle, speedMultiplier) ==
  LET multiplier == IF speedMultiplier = -1 THEN 100 ELSE speedMultiplier
      baseSpeed == OrNumber(Lookup(CharacterSpeeds, characterId), 100)
      styleModifier ==
        OrNumber(Lookup(StyleModifiers, Or(voiceStyle, "confident")), 100)
      finalSpeed == Times(Times(baseSpeed, styleModifier), Number(multiplier))
  IN MathMax(Number(500000), finalSpeed)

\* calculateDynamicSpeed: the factors are hundredths, the product and the
\* result millionths (0.5 is 500000, 2.0 is 2000000); speedMultiplier = 1.0
\* is the default of the omitted parameter.
CalculateDynamicSpeed(characterId, voiceStyle, speedMultiplier) ==
  LET multiplier == IF speedMultiplier = -1 THEN 100 ELSE speedMultiplier
      baseSpeed == OrNumber(Lookup(CharacterSpeeds, characterId), 100)
      styleModifier ==
        OrNumber(Lookup(StyleModifiers, Or(voiceStyle, "confident")), 100)
      finalSpeed == Times(Times(baseSpeed, styleModifier), Number(multiplier))
  IN MathMax(Number(500000), MathMin(Number(2000000), finalSpeed))

MaleVoices ==
  <<"Fritz-PlayAI", "Thunder-PlayAI", "Basil-PlayAI", "Cillian-PlayAI",
    "Calum-PlayAI">>

FemaleVoices ==
  <<"Celeste-PlayAI", "Cheyenne-PlayAI", "Gail-PlayAI", "Indigo-PlayAI",
    "Deedee-PlayAI">>

VoiceMap ==
  [razor |-> "Cheyenne-PlayAI", venom |-> "Thunder-PlayAI",
   silk |-> "Basil-PlayAI", cypher |-> "Fritz-PlayAI"]

\* getVoiceForCharacter: the voices the call can return.  The mapped voice
\* when the id has one; for an id naming an inherited member that member
\* (written "[inherited]"); otherwise voices[floor(random * length)] of the
\* list of the gender, 'male' when the gender is omitted.
GetVoiceForCharacter(characterId, gender) ==
  IF characterId \in DOMAIN VoiceMap
  THEN {VoiceMap[characterId]}
  ELSE IF characterId \in ObjectPrototypeKeys
       THEN {"[inherited]"}
       ELSE LET voices == IF Or(gender, "male") = "female"
                          THEN FemaleVoices
                          ELSE MaleVoices
            IN {voices[k] : k \in 1..Len(voices)}

\* Mutant: no markers are added for CYPHER-9000.
ApplyRobotVoiceEffectsNone(text, characterId) == text

\* applyRobotVoiceEffects: for 'cypher' the three replacements in the order
\* of the code, then `[processing] ${robotText} [systems_online]`.
ApplyRobotVoiceEffects(text, characterId) ==
  IF characterId = "cypher"
  THEN LET pauses ==
             ReplaceAll(text, ".", <<".", " ", "[", "p", "a", "u", "s", "e", "]">>)
           emphasis ==
             ReplaceAll(pauses, "!",
                        <<".", " ", "[", "e", "m", "p", "h", "a", "s", "i", "s", "]">>)
           robotText ==
             ReplaceAll(emphasis, "?", <<".", " ", "[", "q", "u", "e", "r", "y", "]">>)
       IN <<"[", "p", "r", "o", "c", "e", "s", "s", "i", "n", "g", "]", " ">>
            \o robotText
            \o <<" ", "[", "s", "y", "s", "t", "e", "m", "s", "_", "o", "n", "l", "i",
                 "n", "e", "]">>
  ELSE text

\* const cleanText = characterId === 'cypher' ? ... : ...
CleanText(text, characterId) ==
  LET processedText == ApplyRobotVoiceEffects(text, characterId)
  IN IF characterId = "cypher"
     THEN Trim(NormalizeWhitespace(RemoveEnclosed(processedText, "*", "*")))
     ELSE Trim(NormalizeWhitespace(
            RemoveEnclosed(RemoveEnclosed(processedText, "[", "]"), "*", "*")))

\* const duration = Math.floor(cleanText.length / 15)
GroqDuration(text, characterId) == Len(CleanText(text, characterId)) \div 15

----------------------------------------------------------------------------
(* The request *)

TypeOK ==
  /\ variant \in Variants
  /\ env \in [KeyedVendors -> STRING]
  /\ pc \in {"idle", "awaitUser", "awaitCall", "done"}
  /\ pos \in 0..Len(Chain)
  /\ rejected \in BOOLEAN
  /\ lookup \in {"pending", "found", "absent", "threw"}

Init ==
  /\ variant \in Variants
  /\ env \in [KeyedVendors -> {""} \cup {SystemKeyOf(v) : v \in KeyedVendors}]
  /\ \A v \in KeyedVendors : env[v] \in {"", SystemKeyOf(v)}
  /\ storage \in [UserIds -> Users \cup {NoUser}]
  /\ storage["u1"].found
  /\ ~storage["missing-user"].found
  /\ instances = [v \in KeyedVendors |-> EmptyMap]
  /\ nextInstance = 1
  /\ pc = "idle"
  /\ req = NoRequest
  /\ lookup = "pending"
  /\ user = NoUser
  /\ pos = 0
  /\ calls = <<>>
  /\ result = NoResult
  /\ rejected = FALSE
  /\ groq = GroqIdle
  /\ events = <<>>
  /\ page = PageIdle
  /\ tasks = TasksIdle
  /\ moderation = ModerationIdle

\* The provider call of block j: look the instance up (creating it on a
\* miss) and start instance.generateTTS(text, options.characterId, {...}).
IssueCall(j, u, log) ==
  LET step == Chain[j]
      v == StepVendor(step)
      apiKey == StepKey(step, u)
      cloning == (v = "myshell")
      m == IF v \in KeyedVendors
           THEN GetInstanceMap(instances[v], v, apiKey, cloning)
           ELSE EmptyMap
      inst == IF v \in KeyedVendors THEN m[CacheKey(v, apiKey, cloning)].id ELSE 0
  IN /\ instances' = IF v \in KeyedVendors
                     THEN [instances EXCEPT ![v] = m]
                     ELSE instances
     /\ nextInstance' = IF v \in KeyedVendors /\ m # instances[v]
                        THEN nextInstance + 1
                        ELSE nextInstance
     /\ calls' = Append(log,
                   [step |-> step, vendor |-> v, apiKey |-> apiKey,
                    instance |-> inst,
                    text |-> req.text, characterId |-> req.options.characterId,
                    options |-> PassedOptions(step, req.options),
                    outcome |-> "pending", value |-> NoResult])
     /\ pos' = j
     /\ pc' = "awaitCall"
     /\ UNCHANGED <<result, rejected>>

\* Mutant: the duration of the value returned is estimated again from the
\* request text.
ReturnReestimated(r) ==
  /\ result' = [audioUrl |-> r.audioUrl, duration |-> Len(req.text) \div 15]
  /\ pc' = "done"
  /\ UNCHANGED rejected

\* generateTTS resolves to value r.
Return(r) ==
  /\ result' = r
  /\ pc' = "done"
  /\ UNCHANGED rejected

\* An error thrown at a site that its enclosing catch turns into a result
\* or that leaves generateTTS as a rejection.
Throw(site) ==
  IF EnclosingCatch(site) = "outer"
  THEN Return(Sentinel(req.text))
  ELSE /\ rejected' = TRUE
       /\ pc' = "done"
       /\ UNCHANGED result

\* Control falls out of block i: run the blocks after it up to the next
\* provider call, or to the end of useSystemTTS.
Continue(i, u, log) ==
  LET j == NextStep(i, u, req.options)
  IN IF j = 0
     THEN /\ Return(Sentinel(req.text))
          /\ calls' = log
          /\ UNCHANGED <<instances, nextInstance, pos>>
     ELSE IssueCall(j, u, log)

\* generateTTS(text, userId, options) is called and awaits storage.getUser.
GenerateTTS ==
  /\ pc = "idle"
  /\ \E text \in Texts, userId \in UserIds, options \in OptionsSet :
       req' = [text |-> text, userId |-> userId, options |-> options]
  /\ pc' = "awaitUser"
  /\ UNCHANGED <<variant, env, storage, instances, nextInstance, lookup, user, pos,
                 calls, result, rejected>>
  /\ UNCHANGED <<groq, events, page, tasks, moderation>>

\* storage.getUser resolves: with no user `User not found` is thrown,
\* otherwise the blocks run up to the first provider call.
GetUserResolves ==
  /\ pc = "awaitUser"
  /\ user' = storage[req.userId]
  /\ lookup' = IF storage[req.userId].found THEN "found" ELSE "absent"
  /\ IF UserMissing(storage[req.userId])
     THEN /\ Throw("userNotFound")
          /\ UNCHANGED <<instances, nextInstance, calls, pos>>
     ELSE Continue(0, storage[req.userId], calls)
  /\ UNCHANGED <<variant, env, storage, req>>
  /\ UNCHANGED <<groq, events, page, tasks, moderation>>

\* storage.getUser rejects.
GetUserRejects ==
  /\ pc = "awaitUser"
  /\ Throw("getUser")
  /\ lookup' = "threw"
  /\ UNCHANGED <<variant, env, storage, instances, nextInstance, req, user, pos, calls>>
  /\ UNCHANGED <<groq, events, page, tasks, moderation>>

\* The values the awaited call c can resolve to: the Groq client estimates
\* the duration from the text it sent, the other clients report any duration.
\* The audio payload of a vendor is written "data:audio/<vendor>".
ProviderValues(c) ==
  IF c.vendor = "groq"
  THEN {[audioUrl |-> "data:audio/groq",
         duration |-> GroqDuration(c.text, c.characterId)]}
  ELSE {[audioUrl |-> "data:audio/" \o c.vendor, duration |-> d] :
          d \in 0..MaxProviderDuration}

\* The awaited provider call resolves; generateTTS returns its value as it is.
ProviderResolves ==
  /\ pc = "awaitCall"
  /\ \E value \in ProviderValues(calls[Len(calls)]) :
       LET succeeded == [calls EXCEPT ![Len(calls)].outcome = "ok",
                                      ![Len(calls)].value = value]
       IN IF ReturnsOnSuccess(Chain[pos])
          THEN /\ Return(value)
               /\ calls' = succeeded
               /\ UNCHANGED <<instances, nextInstance, pos>>
          ELSE Continue(pos, user, succeeded)
  /\ UNCHANGED <<variant, env, storage, req, lookup, user>>
  /\ UNCHANGED <<groq, events, page, tasks, moderation>>

\* The awaited provider call rejects; the block's catch logs it and control
\* falls into the next block.
ProviderRejects ==
  /\ pc = "awaitCall"
  /\ LET failed == [calls EXCEPT ![Len(calls)].outcome = "threw"]
         site == Chain[pos]
     IN IF EnclosingCatch(site) = "local"
        THEN Continue(pos, user, failed)
        ELSE /\ Throw(site)
             /\ calls' = failed
             /\ UNCHANGED <<instances, nextInstance, pos>>
  /\ UNCHANGED <<variant, env, storage, req, lookup, user>>
  /\ UNCHANGED <<groq, events, page, tasks, moderation>>

Next ==
  \/ GenerateTTS
  \/ GetUserResolves
  \/ GetUserRejects
  \/ ProviderResolves
  \/ ProviderRejects

Spec == Init /\ [][Next]_vars

\* The same requests when every awaited promise settles: storage.getUser
\* and each provider call eventually resolve or reject.
\* They start with the process-wide keys all set or all unset, and with a
\* user who has a key of every vendor or of none.
InitSettling ==
  /\ Init
  /\ \A v, w \in KeyedVendors :
       /\ (env[v] = "") = (env[w] = "")
       /\ (UserApiKey(storage["u1"], v) = "") = (UserApiKey(storage["u1"], w) = "")

\* The longest request text followed when every promise settles.
MaxSettlingTextLen == 9

NextSettling ==
  \/ GenerateTTS /\ Len(req'.text) <= MaxSettlingTextLen
  \/ GetUserResolves
  \/ GetUserRejects
  \/ ProviderResolves
  \/ ProviderRejects

SpecSettling ==
  /\ InitSettling
  /\ [][NextSettling]_vars
  /\ WF_vars(GetUserRejects \/ GetUserResolves)
  /\ WF_vars(ProviderRejects \/ ProviderResolves)

\* The manager with no request and an empty cache, while another component
\* is looked at on its own.
ManagerAtRest ==
  /\ variant = "later"
  /\ env = [v \in KeyedVendors |-> ""]
  /\ storage = [id \in UserIds |-> NoUser]
  /\ instances = [v \in KeyedVendors |-> EmptyMap]
  /\ nextInstance = 1
  /\ pc = "idle"
  /\ req = NoRequest
  /\ lookup = "pending"
  /\ user = NoUser
  /\ pos = 0
  /\ calls = <<>>
  /\ result = NoResult
  /\ rejected = FALSE

----------------------------------------------------------------------------
(* The instance getters and clearUserInstances on their own *)

\* Number of getter calls and clears followed.
MaxCacheEvents == 4

\* The vendors the running version keeps an instance map for.
CachedVendors == IF variant = "later" THEN KeyedVendors ELSE {"openai", "groq"}

CacheUserIds == {"u1", "u2"}

\* The key of a second user.
OtherUserKeyOf(v) == "uk2-" \o v

\* The keys the call sites hand to the getter of vendor v: a user's own key
\* and, in the later version, the process-wide key.
CacheApiKeys(v) ==
  IF variant = "later"
  THEN {UserKeyOf(v), OtherUserKeyOf(v), SystemKeyOf(v)}
  ELSE {UserKeyOf(v), OtherUserKeyOf(v)}

InitCache ==
  /\ variant \in Variants
  /\ env = [v \in KeyedVendors |-> ""]
  /\ storage = [id \in UserIds |-> NoUser]
  /\ instances = [v \in KeyedVendors |-> EmptyMap]
  /\ nextInstance = 1
  /\ pc = "idle"
  /\ req = NoRequest
  /\ lookup = "pending"
  /\ user = NoUser
  /\ pos = 0
  /\ calls = <<>>
  /\ result = NoResult
  /\ rejected = FALSE
  /\ groq = GroqIdle
  /\ events = <<>>
  /\ page = PageIdle
  /\ tasks = TasksIdle
  /\ moderation = ModerationIdle

\* Mutant: only the instances made for the keys of the user named are dropped.
ClearedInstancesOfUser(userId) ==
  [v \in KeyedVendors |->
     LET owned == IF userId = "u1"
                  THEN CacheKey(v, UserKeyOf(v), v = "myshell")
                  ELSE CacheKey(v, OtherUserKeyOf(v), v = "myshell")
         kept == DOMAIN instances[v] \ {owned}
     IN [k \in kept |-> instances[v][k]]]

\* Mutant: the later version clears the two maps of the early version only.
ClearedInstancesTwoMaps(userId) ==
  [v \in KeyedVendors |->
     IF v \in {"openai", "groq"} THEN EmptyMap ELSE instances[v]]

\* clearUserInstances(userId): the maps afterwards; every map of the running
\* version is cleared and userId is not read.
ClearedInstances(userId) ==
  [v \in KeyedVendors |-> IF v \in CachedVendors THEN EmptyMap ELSE instances[v]]

\* A call site runs get<Vendor>Instance(apiKey) (MyShell: with voiceCloning
\* true, as every call site does).
GetInstance ==
  /\ Len(events) < MaxCacheEvents
  /\ \E v \in CachedVendors :
       \E apiKey \in CacheApiKeys(v) :
         LET m == GetInstanceMap(instances[v], v, apiKey, v = "myshell")
             created == m # instances[v]
         IN /\ instances' = [instances EXCEPT ![v] = m]
            /\ nextInstance' = IF created THEN nextInstance + 1 ELSE nextInstance
            /\ events' = Append(events,
                           [op |-> "get", vendor |-> v, apiKey |-> apiKey,
                            userId |-> "",
                            instance |-> m[CacheKey(v, apiKey, v = "myshell")].id,
                            created |-> created])
  /\ UNCHANGED <<variant, env, storage, pc, req, lookup, user, pos, calls, result,
                 rejected, groq, page, tasks, moderation>>

\* clearUserInstances(userId)
ClearUserInstances ==
  /\ Len(events) < MaxCacheEvents
  /\ \E userId \in CacheUserIds :
       /\ instances' = ClearedInstances(userId)
       /\ events' = Append(events,
                      [op |-> "clear", vendor |-> "", apiKey |-> "",
                       userId |-> userId, instance |-> 0, created |-> FALSE])
  /\ UNCHANGED <<variant, env, storage, nextInstance, pc, req, lookup, user, pos,
                 calls, result, rejected, groq, page, tasks, moderation>>

NextCache ==
  \/ GetInstance
  \/ ClearUserInstances

SpecCache == InitCache /\ [][NextCache]_vars

----------------------------------------------------------------------------
(* getMyShellInstance for any key and flag *)

\* Keys that contain the separator or end like a rendered flag.
MyShellApiKeys == {"k", "k_", "k_true", "k_false", "_true"}

InitMyShell ==
  /\ InitCache
  /\ variant = "later"

\* getMyShellInstance(apiKey, voiceCloning)
GetMyShellInstance ==
  /\ Len(events) < MaxCacheEvents
  /\ \E apiKey \in MyShellApiKeys, voiceCloning \in BOOLEAN :
       LET m == GetInstanceMap(instances["myshell"], "myshell", apiKey, voiceCloning)
           created == m # instances["myshell"]
       IN /\ instances' = [instances EXCEPT !["myshell"] = m]
          /\ nextInstance' = IF created THEN nextInstance + 1 ELSE nextInstance
          /\ events' = Append(events,
                         [op |-> "get", vendor |-> "myshell", apiKey |-> apiKey,
                          voiceCloning |-> voiceCloning, userId |-> "",
                          instance |-> m[CacheKey("myshell", apiKey, voiceCloning)].id,
                          created |-> created])
  /\ UNCHANGED <<variant, env, storage, pc, req, lookup, user, pos, calls, result,
                 rejected, groq, page, tasks, moderation>>

NextMyShell ==
  \/ GetMyShellInstance
  \/ ClearUserInstances

SpecMyShell == InitMyShell /\ [][NextMyShell]_vars

----------------------------------------------------------------------------
(* Concurrent requests: generateTTS, testUserAPIKey and clearUserInstances *)

\* The options of the concurrent requests.
TaskOptions == {o \in OptionsSet : o.characterId = "cypher"}

\* By the symmetry of the two tasks, testUserAPIKey is called by one of them.
TestingTasks == {"t2"}

\* The process-wide keys and the user's keys are all set or all unset; a
\* user with keys and a preference runs without process-wide keys.
InitRequests ==
  /\ InitSettling
  /\ \/ /\ storage["u1"].preferredTtsService = ""
        /\ env["openai"] # ""
     \/ /\ storage["u1"].preferredTtsService = "openai"
        /\ env["openai"] = ""
        /\ UserApiKey(storage["u1"], "openai") # ""

\* Mutant: the settled call is attributed to the instance the map holds for
\* the key at that moment.
InstanceAtCompletionFromCache(tk) ==
  LET get == tk.gets[Len(tk.gets)]
  IN IF get.vendor \notin KeyedVendors
     THEN tk.held
     ELSE IF get.key \in DOMAIN instances[get.vendor]
          THEN instances[get.vendor][get.key]
          ELSE NoInstance

\* The instance a call runs on is the local constant the getter's result
\* was bound to.
InstanceAtCompletion(tk) == tk.held

\* Mutant: a failed call removes its instance from the map.
InstancesAfterFailureEvicting(tk) ==
  LET get == tk.gets[Len(tk.gets)]
  IN IF get.vendor \notin KeyedVendors
     THEN instances
     ELSE [instances EXCEPT ![get.vendor] =
             [k \in DOMAIN @ \ {get.key} |-> @[k]]]

\* The catch blocks only log: the maps after a call failed.
InstancesAfterFailure(tk) == instances

\* Mutant: a test that threw counts as passed.
TestVerdictUnlessFalse(tested) == IF tested = "false" THEN "false" ELSE "true"

\* What testUserAPIKey returns after the vendor's test: the test's boolean,
\* false from the catch when the test threw.
TestVerdict(tested) == IF tested = "true" THEN "true" ELSE "false"

\* The task looks up the instance of vendor v for apiKey and starts its call.
TaskLookup(t, tk, v, apiKey, j) ==
  LET cloning == (v = "myshell")
      key == CacheKey(v, apiKey, cloning)
      m == IF v \in KeyedVendors
           THEN GetInstanceMap(instances[v], v, apiKey, cloning)
           ELSE EmptyMap
      inst == IF v \in KeyedVendors THEN m[key] ELSE NoInstance
  IN /\ instances' = IF v \in KeyedVendors
                     THEN [instances EXCEPT ![v] = m]
                     ELSE instances
     /\ nextInstance' = IF v \in KeyedVendors /\ m # instances[v]
                        THEN nextInstance + 1
                        ELSE nextInstance
     /\ tasks' = [tasks EXCEPT ![t] =
                    [tk EXCEPT !.pc = "awaitCall", !.pos = j, !.held = inst,
                               !.gets = Append(@, [vendor |-> v, key |-> key,
                                                   apiKey |-> apiKey,
                                                   instance |-> inst.id,
                                                   defined |-> inst # NoInstance
                                                                 \/ v \notin KeyedVendors,
                                                   epoch |-> Len(events)])]]

\* The task's request ends with record tk.
TaskEnds(t, tk) ==
  /\ tasks' = [tasks EXCEPT ![t] = [tk EXCEPT !.pc = "done"]]
  /\ UNCHANGED <<nextInstance>>

\* generateTTS of the task: control falls out of block i.
TaskContinue(t, tk, i) ==
  LET j == NextStep(i, tk.user, tk.options)
  IN IF j = 0
     THEN /\ TaskEnds(t, [tk EXCEPT !.result = Sentinel(tk.text)])
          /\ UNCHANGED instances
     ELSE TaskLookup(t, tk, StepVendor(Chain[j]), StepKey(Chain[j], tk.user), j)

\* A task calls generateTTS(text, userId, options).
TaskGenerateTTS ==
  /\ \E t \in Tasks, userId \in UserIds, options \in TaskOptions :
       /\ tasks[t].pc = "idle"
       /\ tasks' = [tasks EXCEPT ![t] =
                      [@ EXCEPT !.kind = "generate", !.pc = "awaitUser",
                                !.text = <<"y", "o">>, !.userId = userId,
                                !.options = options]]
  /\ UNCHANGED <<managerVars, groq, events, page, moderation>>

\* A task calls testUserAPIKey(userId, service).
TaskTestUserAPIKey ==
  /\ \E t \in TestingTasks, userId \in UserIds, service \in CachedVendors :
       /\ tasks[t].pc = "idle"
       /\ tasks' = [tasks EXCEPT ![t] =
                      [@ EXCEPT !.kind = "test", !.pc = "awaitUser",
                                !.userId = userId, !.service = service]]
  /\ UNCHANGED <<managerVars, groq, events, page, moderation>>

\* storage.getUser of a task resolves.  generateTTS throws 'User not found'
\* for no user and otherwise runs to its first provider call;
\* testUserAPIKey returns false for no user and for a user without a key of
\* the service, and otherwise starts the vendor's test with the user's key.
TaskGetUserResolves ==
  /\ \E t \in Tasks :
       LET u == storage[tasks[t].userId]
           tk == [tasks[t] EXCEPT !.user = u,
                                  !.lookup = IF u.found THEN "found" ELSE "absent"]
       IN /\ tasks[t].pc = "awaitUser"
          /\ IF tk.kind = "generate"
             THEN IF UserMissing(u)
                  THEN /\ TaskEnds(t, IF EnclosingCatch("userNotFound") = "outer"
                                      THEN [tk EXCEPT !.result = Sentinel(tk.text)]
                                      ELSE [tk EXCEPT !.rejected = TRUE])
                       /\ UNCHANGED instances
                  ELSE TaskContinue(t, tk, 0)
             ELSE IF u.found /\ UserApiKey(u, tk.service) # ""
                  THEN TaskLookup(t, tk, tk.service, UserApiKey(u, tk.service), 0)
                  ELSE /\ TaskEnds(t, [tk EXCEPT !.verdict = "false"])
                       /\ UNCHANGED instances
  /\ UNCHANGED <<variant, env, storage, pc, req, lookup, user, pos, calls, result,
                 rejected, groq, events, page, moderation>>

\* storage.getUser of a task rejects: generateTTS catches it and returns the
\* sentinel; testUserAPIKey awaits it outside its try and rejects.
TaskGetUserRejects ==
  /\ \E t \in Tasks :
       LET tk == [tasks[t] EXCEPT !.lookup = "threw"]
       IN /\ tasks[t].pc = "awaitUser"
          /\ TaskEnds(t, IF tk.kind = "generate" /\ EnclosingCatch("getUser") = "outer"
                         THEN [tk EXCEPT !.result = Sentinel(tk.text)]
                         ELSE [tk EXCEPT !.rejected = TRUE])
  /\ UNCHANGED <<variant, env, storage, instances, pc, req, lookup, user, pos, calls,
                 result, rejected, groq, events, page, moderation>>

\* The awaited call of a task resolves: generateTTS returns the value;
\* testUserAPIKey returns the boolean of the test (for OpenAI whether the
\* audioUrl of a test synthesis is not empty).
TaskCallResolves ==
  /\ \E t \in Tasks :
       LET tk == [tasks[t] EXCEPT !.usedInstance = InstanceAtCompletion(tasks[t])]
           get == tk.gets[Len(tk.gets)]
       IN /\ tasks[t].pc = "awaitCall"
          /\ IF tk.kind = "generate"
             THEN \E value \in ProviderValues([vendor |-> get.vendor, text |-> tk.text,
                                                characterId |-> tk.options.characterId]) :
                    TaskEnds(t, [tk EXCEPT !.result = value])
             ELSE \E passed \in {"true", "false"} :
                    TaskEnds(t, [tk EXCEPT !.tested = passed,
                                           !.verdict = TestVerdict(passed)])
  /\ UNCHANGED <<variant, env, storage, instances, pc, req, lookup, user, pos, calls,
                 result, rejected, groq, events, page, moderation>>

\* The awaited call of a task rejects: the block's catch of generateTTS logs
\* and control falls into the next block; testUserAPIKey's catch returns
\* false.
TaskCallRejects ==
  /\ \E t \in Tasks :
       LET tk == [tasks[t] EXCEPT !.usedInstance = InstanceAtCompletion(tasks[t]),
                                  !.failures = @ + 1]
       IN /\ tasks[t].pc = "awaitCall"
          /\ IF tk.kind = "generate"
             THEN IF InstancesAfterFailure(tk) = instances
                  THEN TaskContinue(t, tk, tk.pos)
                  ELSE /\ instances' = InstancesAfterFailure(tk)
                       /\ TaskEnds(t, [tk EXCEPT !.result = Sentinel(tk.text)])
             ELSE /\ TaskEnds(t, [tk EXCEPT !.tested = "threw",
                                            !.verdict = TestVerdict("threw")])
                  /\ instances' = InstancesAfterFailure(tk)
  /\ UNCHANGED <<variant, env, storage, pc, req, lookup, user, pos, calls, result,
                 rejected, groq, events, page, moderation>>

\* clearUserInstances(userId) between the steps of the requests, once for
\* each user, "u1" before "u2".
TaskClearUserInstances ==
  /\ \E userId \in CacheUserIds :
       /\ \A k \in 1..Len(events) : events[k].userId # userId
       /\ userId = "u2" => events # <<>>
       /\ instances' = ClearedInstances(userId)
       /\ events' = Append(events,
                      [op |-> "clear", vendor |-> "", apiKey |-> "",
                       userId |-> userId, instance |-> 0, created |-> FALSE])
  /\ UNCHANGED <<variant, env, storage, nextInstance, pc, req, lookup, user, pos,
                 calls, result, rejected, groq, page, tasks, moderation>>

NextRequests ==
  \/ TaskGenerateTTS
  \/ TaskTestUserAPIKey
  \/ TaskGetUserResolves
  \/ TaskGetUserRejects
  \/ TaskCallResolves
  \/ TaskCallRejects
  \/ TaskClearUserInstances

SpecRequests == InitRequests /\ [][NextRequests]_vars

----------------------------------------------------------------------------
(* The battle arena page: handleRecordingComplete *)

InitPage ==
  /\ ManagerAtRest
  /\ groq = GroqIdle
  /\ events = <<>>
  /\ \E battleId \in BOOLEAN, playing \in BOOLEAN : page = PageAt(battleId, playing)
  /\ tasks = TasksIdle
  /\ moderation = ModerationIdle

\* JavaScript truthiness of an optional string and `n || 0` of an optional
\* number.
Truthy(m) == m # Missing /\ m[1] # ""

OrZero(m) == IF m = Missing THEN 0 ELSE m[1]

\* Mutant: every URL that is not empty is played.
ShouldAutoplayAnyUrl(audioUrl) == Truthy(audioUrl)

\* if (result.audioUrl && result.audioUrl.length > 100)
ShouldAutoplay(audioUrl) == Truthy(audioUrl) /\ Len(audioUrl[1]) > 100

\* The finally block.
Finally(p) == [p EXCEPT !.pc = "settled", !.isTranscribing = FALSE,
                        !.isAIResponding = FALSE]

\* setIsTranscribing(false); updateBattleState({isAIResponding: true});
\* then submitRound is awaited.
StartSubmit(p) == [p EXCEPT !.pc = "awaitSubmit", !.isTranscribing = FALSE,
                            !.isAIResponding = TRUE]

\* handleRecordingComplete(recording) up to its first await.
HandleRecordingComplete ==
  /\ page.pc = "idle"
  /\ page' = IF page.battleId
             THEN [page EXCEPT !.pc = "awaitTranscribe", !.isTranscribing = TRUE]
             ELSE StartSubmit(page)
  /\ UNCHANGED <<managerVars, groq, events, tasks, moderation>>

\* The transcription fetch resolves; a response that is not ok is skipped.
TranscribeResolves ==
  /\ page.pc = "awaitTranscribe"
  /\ \E ok \in BOOLEAN :
       page' = IF ok THEN [page EXCEPT !.pc = "awaitJson"] ELSE StartSubmit(page)
  /\ UNCHANGED <<managerVars, groq, events, tasks, moderation>>

\* The transcription fetch rejects: the inner catch logs it.
TranscribeRejects ==
  /\ page.pc = "awaitTranscribe"
  /\ page' = StartSubmit(page)
  /\ UNCHANGED <<managerVars, groq, events, tasks, moderation>>

\* transcriptionResponse.json() resolves: the text is shown at once.
TranscriptionArrives ==
  /\ page.pc = "awaitJson"
  /\ \E userText \in UserTexts :
       page' = StartSubmit(
                 [page EXCEPT
                    !.liveTranscription =
                      IF Truthy(userText) THEN userText[1] ELSE "Voice input processed",
                    !.crowdReactions = IF Truthy(userText) THEN @ + 1 ELSE @,
                    !.toasts = Append(@, [title |-> "Transcription Complete!",
                                          description |-> "Processing AI response...",
                                          variant |-> "default"])])
  /\ UNCHANGED <<managerVars, groq, events, tasks, moderation>>

\* transcriptionResponse.json() rejects: the inner catch logs it.
TranscriptionFails ==
  /\ page.pc = "awaitJson"
  /\ page' = StartSubmit(page)
  /\ UNCHANGED <<managerVars, groq, events, tasks, moderation>>

\* The page after `if (result) { ... }` for a round result r.
RoundShown(p, r) ==
  [p EXCEPT
     !.liveTranscription =
       IF Truthy(r.userText) /\ r.userText[1] # @ THEN r.userText[1] ELSE @,
     !.isAIResponding = FALSE,
     !.aiResponse = IF Truthy(r.aiResponse) THEN r.aiResponse[1] ELSE @,
     !.crowdReactions =
       IF Truthy(r.aiResponse) /\ Len(r.aiResponse[1]) > 20 THEN @ + 1 ELSE @,
     !.currentAiAudio = r.audioUrl,
     !.isPlayingAudio = IF ShouldAutoplay(r.audioUrl) THEN TRUE ELSE @,
     !.playUpdates = IF ShouldAutoplay(r.audioUrl) THEN @ + 1 ELSE @,
     !.timer = IF ShouldAutoplay(r.audioUrl) THEN "first" ELSE @,
     !.toasts = Append(@, [title |-> "Round Complete!",
                           description |-> "Score: You " \o ToString(OrZero(r.userScore))
                                             \o " - AI " \o ToString(OrZero(r.aiScore)),
                           variant |-> "default"])]

\* submitRound resolves.
SubmitRoundResolves ==
  /\ page.pc = "awaitSubmit"
  /\ \E round \in RoundResults :
       page' = Finally(IF round = Missing
                       THEN [page EXCEPT !.result = round]
                       ELSE RoundShown([page EXCEPT !.result = round], round[1]))
  /\ UNCHANGED <<managerVars, groq, events, tasks, moderation>>

\* submitRound rejects: the catch shows the error, with the message of an
\* Error or the stock text.
SubmitRoundRejects ==
  /\ page.pc = "awaitSubmit"
  /\ \E message \in {"Failed to submit round", "Failed to process battle round"} :
       page' = Finally([page EXCEPT
                          !.toasts = Append(@, [title |-> "Battle Error",
                                                description |-> message,
                                                variant |-> "destructive"])])
  /\ UNCHANGED <<managerVars, groq, events, tasks, moderation>>

\* A timer of the forced autoplay fires: the one set for 50 ms sets the flag
\* and starts the one for 200 ms, which sets the flag again.
AutoplayTimerFires ==
  /\ page.timer # "none"
  /\ page' = [page EXCEPT !.isPlayingAudio = TRUE,
                          !.playUpdates = @ + 1,
                          !.timer = IF @ = "first" THEN "second" ELSE "none"]
  /\ UNCHANGED <<managerVars, groq, events, tasks, moderation>>

NextPage ==
  \/ HandleRecordingComplete
  \/ TranscribeResolves
  \/ TranscribeRejects
  \/ TranscriptionArrives
  \/ TranscriptionFails
  \/ SubmitRoundResolves
  \/ SubmitRoundRejects
  \/ AutoplayTimerFires

SpecPage == InitPage /\ [][NextPage]_vars

----------------------------------------------------------------------------
(* Content moderation: ContentModerationService *)

UpperCaseLetters ==
  <<"A", "B", "C", "D", "E", "F", "G", "H", "I", "J", "K", "L", "M",
    "N", "O", "P", "Q", "R", "S", "T", "U", "V", "W", "X", "Y", "Z">>

LowerCaseLetters ==
  <<"a", "b", "c", "d", "e", "f", "g", "h", "i", "j", "k", "l", "m",
    "n", "o", "p", "q", "r", "s", "t", "u", "v", "w", "x", "y", "z">>

\* s.toLowerCase()
ToLowerCase(s) ==
  [i \in 1..Len(s) |->
     IF \E k \in 1..Len(UpperCaseLetters) : UpperCaseLetters[k] = s[i]
     THEN LowerCaseLetters[CHOOSE k \in 1..Len(UpperCaseLetters) :
                             UpperCaseLetters[k] = s[i]]
     ELSE s[i]]

\* s.startsWith(prefix)
StartsWith(s, prefix) ==
  /\ Len(s) >= Len(prefix)
  /\ SubSeq(s, 1, Len(prefix)) = prefix

\* s.split('\n')
RECURSIVE SplitLines(_)
SplitLines(s) ==
  IF \E i \in 1..Len(s) : s[i] = "\n"
  THEN LET i == CHOOSE i \in 1..Len(s) :
                  s[i] = "\n" /\ \A j \in 1..(i - 1) : s[j] # "\n"
       IN <<SubSeq(s, 1, i - 1)>> \o SplitLines(SubSeq(s, i + 1, Len(s)))
  ELSE <<s>>

\* line.trim().startsWith('S')
IsCategoryLine(line) == StartsWith(Trim(line), <<"S">>)

\* result.choices[0]?.message?.content?.trim() || ''
ModerationOutput(body) ==
  IF body.shape = "content" THEN Trim(body.content) ELSE <<>>

\* The result moderateContent builds from the classifier's output.
Classify(moderationOutput) ==
  IF StartsWith(ToLowerCase(moderationOutput), <<"s", "a", "f", "e">>)
  THEN SafeResult
  ELSE IF StartsWith(ToLowerCase(moderationOutput), <<"u", "n", "s", "a", "f", "e">>)
       THEN [isSafe |-> FALSE, hasCategories |-> TRUE,
             categories |-> SelectSeq(Tail(SplitLines(moderationOutput)),
                                        IsCategoryLine)]
       ELSE SafeResult

\* ['S1', 'S3', 'S4', 'S10', 'S11']
SeriousCategories ==
  {<<"S", "1">>, <<"S", "3">>, <<"S", "4">>, <<"S", "1", "0">>, <<"S", "1", "1">>}

IsSerious(category) == category \in SeriousCategories

FamilyFriendlyAlternative == "Your rhymes are weak, I'm bringing the heat, ..."

ModerateAlternative == "Your bars are trash, my flow's on fire, ..."

\* What filterContent returns for the result of moderateContent; the reason
\* is the list of the categories getCategoryExplanation names.
Filter(content, safetyLevel, m) ==
  IF safetyLevel = "strict"
  THEN IF ~m.isSafe
       THEN [content |-> FamilyFriendlyAlternative, wasFlagged |-> TRUE,
             reason |-> IF m.hasCategories
                        THEN m.categories
                        ELSE <<"Content policy violation">>]
       ELSE [content |-> content, wasFlagged |-> FALSE, reason |-> <<>>]
  ELSE IF ~m.isSafe /\ m.hasCategories
          /\ SelectSeq(m.categories, IsSerious) # <<>>
       THEN [content |-> ModerateAlternative, wasFlagged |-> TRUE,
             reason |-> SelectSeq(m.categories, IsSerious)]
       ELSE [content |-> content, wasFlagged |-> FALSE, reason |-> <<>>]

\* Mutant: the catch of moderateContent reports the content as unsafe.
ModerationCaughtClosed == [isSafe |-> FALSE, hasCategories |-> FALSE, categories |-> <<>>]

\* The catch of moderateContent: { isSafe: true }.
ModerationCaught == SafeResult

InitModeration ==
  /\ variant = "later"
  /\ \E key \in {"", SystemKeyOf("groq")} :
       env = [v \in KeyedVendors |-> IF v = "groq" THEN key ELSE ""]
  /\ storage = [id \in UserIds |-> NoUser]
  /\ instances = [v \in KeyedVendors |-> EmptyMap]
  /\ nextInstance = 1
  /\ pc = "idle"
  /\ req = NoRequest
  /\ lookup = "pending"
  /\ user = NoUser
  /\ pos = 0
  /\ calls = <<>>
  /\ result = NoResult
  /\ rejected = FALSE
  /\ groq = GroqIdle
  /\ events = <<>>
  /\ page = PageIdle
  /\ tasks = TasksIdle
  /\ \E envVar \in {"", SystemKeyOf("groq")} :
       moderation = [ModerationIdle EXCEPT !.envVar = envVar]

\* moderateContent has its result m, reached by `outcome`; filterContent
\* returns.
ModerationReturns(outcome, reply, m) ==
  moderation' = [moderation EXCEPT
                   !.pc = "done", !.outcome = outcome, !.reply = reply,
                   !.moderationResult = m,
                   !.filtered = Filter(moderation.content, moderation.safetyLevel, m)]

\* process.env.GROQ_API_KEY || process.env.GROQ_API_KEY_ENV_VAR || ""
ModerationApiKey == Or(EnvApiKey("groq"), Or(moderation.envVar, ""))

\* filterContent(content, safetyLevel) calls moderateContent, which reads the
\* apiKey getter while it builds the request: the getter throws without a
\* key, into the catch of moderateContent.
FilterContent ==
  /\ moderation.pc = "idle"
  /\ \E content \in Contents, safetyLevel \in SafetyLevels :
       LET started == [moderation EXCEPT !.content = content,
                                         !.safetyLevel = safetyLevel]
       IN IF ModerationApiKey = ""
          THEN moderation' = [started EXCEPT
                                !.pc = "done", !.outcome = "noKey",
                                !.moderationResult = ModerationCaught,
                                !.filtered = Filter(content, safetyLevel, ModerationCaught)]
          ELSE moderation' = [started EXCEPT !.pc = "awaitFetch"]
  /\ UNCHANGED <<managerVars, groq, events, page, tasks>>

\* fetch resolves: a response that is not ok is reported as safe.
ModerationFetchResolves ==
  /\ moderation.pc = "awaitFetch"
  /\ \E ok \in BOOLEAN :
       IF ok
       THEN moderation' = [moderation EXCEPT !.pc = "awaitJson"]
       ELSE ModerationReturns("notOk", <<>>, SafeResult)
  /\ UNCHANGED <<managerVars, groq, events, page, tasks>>

\* fetch rejects.
ModerationFetchRejects ==
  /\ moderation.pc = "awaitFetch"
  /\ ModerationReturns("fetchRejected", <<>>, ModerationCaught)
  /\ UNCHANGED <<managerVars, groq, events, page, tasks>>

\* response.json() resolves; reading choices[0] of an object without
\* choices throws into the catch.
ModerationJsonResolves ==
  /\ moderation.pc = "awaitJson"
  /\ \E body \in ResponseBodies :
       IF body.shape = "noChoices"
       THEN ModerationReturns("malformed", <<>>, ModerationCaught)
       ELSE ModerationReturns("reply", body.content, Classify(ModerationOutput(body)))
  /\ UNCHANGED <<managerVars, groq, events, page, tasks>>

\* response.json() rejects.
ModerationJsonRejects ==
  /\ moderation.pc = "awaitJson"
  /\ ModerationReturns("jsonRejected", <<>>, ModerationCaught)
  /\ UNCHANGED <<managerVars, groq, events, page, tasks>>

NextModeration ==
  \/ FilterContent
  \/ ModerationFetchResolves
  \/ ModerationFetchRejects
  \/ ModerationJsonResolves
  \/ ModerationJsonRejects

SpecModeration == InitModeration /\ [][NextModeration]_vars

----------------------------------------------------------------------------
(* One call of the Groq client: GroqTTSService.generateTTS *)

InitGroq ==
  /\ ManagerAtRest
  /\ groq = GroqIdle
  /\ events = <<>>
  /\ page = PageIdle
  /\ tasks = TasksIdle
  /\ moderation = ModerationIdle

\* The messages of the errors the SDK and the file system raise.
GroqErrorMessages == {"401 Invalid API Key", "ENOSPC: no space left on device"}

\* Mutant: the catch returns the empty-audio result instead of throwing.
GroqFailsSwallowed(site, message) ==
  groq' = [groq EXCEPT !.pc = "done",
                       !.failure = site,
                       !.result = [audioUrl |-> "",
                                   duration |-> Len(groq.text) \div 15]]

\* The catch of generateTTS for an error raised at `site`: the wrapped error
\* leaves as a rejection.
GroqFails(site, message) ==
  groq' = [groq EXCEPT !.pc = "done",
                       !.failure = site,
                       !.error = "Groq TTS generation failed: " \o message]

\* generateTTS(text, characterId, options) up to its first await: voice,
\* cleaned text and speed make the request to groq.audio.speech.create.
GroqGenerateTTS ==
  /\ groq.pc = "idle"
  /\ \E text \in GroqTexts, characterId \in GroqCharacterIds,
        voiceStyle \in GroqVoiceStyles, gender \in GroqGenders,
        speedMultiplier \in GroqSpeedMultipliers :
       \E voice \in GetVoiceForCharacter(characterId, gender) :
         groq' = [groq EXCEPT
                    !.pc = "awaitSpeech",
                    !.text = text,
                    !.characterId = characterId,
                    !.options = [characterId |-> characterId, characterName |-> "",
                                 gender |-> gender, voiceStyle |-> voiceStyle,
                                 speedMultiplier |-> speedMultiplier],
                    !.request =
                      [model |-> "playai-tts", voice |-> voice,
                       input |-> CleanText(text, characterId),
                       response_format |-> "wav",
                       speed |-> CalculateDynamicSpeed(characterId, voiceStyle,
                                                       speedMultiplier)]]
  /\ UNCHANGED <<managerVars, events, page, tasks, moderation>>

\* groq.audio.speech.create resolves; the body is awaited next.
GroqSpeechResolves ==
  /\ groq.pc = "awaitSpeech"
  /\ groq' = [groq EXCEPT !.pc = "awaitBuffer"]
  /\ UNCHANGED <<managerVars, events, page, tasks, moderation>>

\* groq.audio.speech.create rejects.
GroqSpeechRejects ==
  /\ groq.pc = "awaitSpeech"
  /\ \E message \in GroqErrorMessages : GroqFails("speech.create", message)
  /\ UNCHANGED <<managerVars, events, page, tasks, moderation>>

\* response.arrayBuffer() resolves: the file is written (writeFileSync can
\* throw) and the data URL is returned with the estimated duration.
GroqBufferResolves ==
  /\ groq.pc = "awaitBuffer"
  /\ \/ groq' = [groq EXCEPT
                   !.pc = "done",
                   !.result = [audioUrl |-> "data:audio/wav;base64",
                               duration |-> Len(groq.request.input) \div 15]]
     \/ \E message \in GroqErrorMessages : GroqFails("writeFileSync", message)
  /\ UNCHANGED <<managerVars, events, page, tasks, moderation>>

\* response.arrayBuffer() rejects.
GroqBufferRejects ==
  /\ groq.pc = "awaitBuffer"
  /\ \E message \in GroqErrorMessages : GroqFails("arrayBuffer", message)
  /\ UNCHANGED <<managerVars, events, page, tasks, moderation>>

NextGroq ==
  \/ GroqGenerateTTS
  \/ GroqSpeechResolves
  \/ GroqSpeechRejects
  \/ GroqBufferResolves
  \/ GroqBufferRejects

SpecGroq == InitGroq /\ [][NextGroq]_vars

----------------------------------------------------------------------------
(* Vocabulary of the properties *)

CallIndexes == 1..Len(calls)

\* Position of a step in the chain of the running variant.
StepIndex(step) == CHOOSE j \in 1..Len(Chain) : Chain[j] = step

Done == pc = "done"

\* The keys of the user the request names, as storage holds them.
RequestUser == storage[req.userId]

UserHasNoKeys == \A v \in KeyedVendors : UserApiKey(RequestUser, v) = ""

NoProcessWideKeys == \A v \in KeyedVendors : env[v] = ""

SystemCalls == {i \in CallIndexes : StepPhase(calls[i].step) = "system"}

PreferenceCalls == {i \in CallIndexes : StepPhase(calls[i].step) = "preference"}

\* The value a successful call of a vendor produced is what was returned.
ReturnedBy(i) ==
  /\ calls[i].outcome = "ok"
  /\ result.audioUrl = "data:audio/" \o calls[i].vendor
  /\ result = calls[i].value

\* Order of the later variant's system chain.
SystemRank(v) ==
  CASE v = "myshell" -> 1
    [] v = "elevenlabs" -> 2
    [] v = "groq" -> 3
    [] v = "openai" -> 4
    [] OTHER -> 0

----------------------------------------------------------------------------
(* C1 *)

\* C1: generateTTS never rejects, whatever the text, the user and the
\* options are: a finished request has resolved to an {audioUrl, duration}
\* value with a duration of at least 0, also when storage.getUser found no
\* user or threw, when no key exists, and when every provider call threw.
C1_NeverRejects ==
  /\ ~rejected
  /\ Done => /\ result.audioUrl \in STRING
             /\ result.duration \in Nat
             /\ \A i \in CallIndexes : calls[i].outcome \in {"ok", "threw"}

\* A request whose user lookup succeeded and all of whose provider calls,
\* the override's, the preferred vendor's and the system chain's, threw.
C1_Witness ==
  /\ Done
  /\ lookup = "found"
  /\ Len(calls) >= 3
  /\ \A i \in CallIndexes : calls[i].outcome = "threw"

----------------------------------------------------------------------------
(* C2 *)

\* The override's call: Groq with the user's Groq key, else GROQ_API_KEY.
IsForcedCall(c) ==
  /\ c.vendor = "groq"
  /\ c.apiKey = Or(user.groqApiKey, env["groq"])

CypherWithGroqKey ==
  /\ req.options.characterId = "cypher"
  /\ lookup = "found"
  /\ Or(user.groqApiKey, env["groq"]) # ""

\* C2 as stated: for characterId 'cypher' the first provider call of the
\* request is the forced Groq call, for every preference, in every variant.
C2_Original ==
  (CypherWithGroqKey /\ calls # <<>>) => IsForcedCall(calls[1])

\* C2 amended: in the later variant, for characterId 'cypher' and a Groq key
\* of the user or of the process, the first provider call is the override's
\* Groq call with the user's key if present, else GROQ_API_KEY, and every
\* preference-phase call comes after it; the early variant has no override.
C2_OverrideFirstInLater ==
  (variant = "later" /\ CypherWithGroqKey /\ pc \in {"awaitCall", "done"}) =>
    /\ calls # <<>>
    /\ calls[1].step = "override"
    /\ IsForcedCall(calls[1])
    /\ \A i \in PreferenceCalls : i > 1 /\ calls[1].outcome = "threw"

\* The override's call failed and the preferred vendor, not Groq, came next.
C2_Witness ==
  /\ variant = "later"
  /\ CypherWithGroqKey
  /\ user.preferredTtsService = "elevenlabs"
  /\ Len(calls) >= 2
  /\ calls[1].step = "override"
  /\ calls[2].step = "pref_elevenlabs"

----------------------------------------------------------------------------
(* C3 *)

\* C3 as stated: with no user key and no process-wide key the result is
\* exactly the sentinel, in both variants.
C3_Original ==
  (Done /\ UserHasNoKeys /\ NoProcessWideKeys) => result = Sentinel(req.text)

\* C3 amended: with no user key and no process-wide key, the later variant
\* calls no provider and returns exactly {audioUrl: "", duration:
\* floor(text.length/15)}; the early variant calls no keyed vendor, still
\* calls Bark and then Typecast, and returns the sentinel unless one of
\* the two succeeds.
C3_NoKeysSentinel ==
  (Done /\ UserHasNoKeys /\ NoProcessWideKeys) =>
    /\ \A i \in CallIndexes : calls[i].vendor \notin KeyedVendors
    /\ variant = "later" =>
         /\ calls = <<>>
         /\ result = [audioUrl |-> "", duration |-> Len(req.text) \div 15]
    /\ variant = "early" =>
         \/ result = [audioUrl |-> "", duration |-> Len(req.text) \div 15]
         \/ ReturnedBy(Len(calls))

\* The later variant, an existing user without keys, the reserved
\* character, a text of two estimated seconds.
C3_Witness ==
  /\ Done
  /\ variant = "later"
  /\ lookup = "found"
  /\ UserHasNoKeys /\ NoProcessWideKeys
  /\ req.options.characterId = "cypher"
  /\ Len(req.text) >= 30
  /\ result.duration = 2

----------------------------------------------------------------------------
(* C4 *)

\* C4 as stated: with no user the request goes on to the System Fallback
\* Chain, so a vendor whose process-wide key is set is attempted.
C4_Original ==
  (Done /\ lookup = "absent" /\ ~NoProcessWideKeys /\ variant = "later") =>
    SystemCalls # {}

\* C4 amended: when storage.getUser returns no user, generateTTS throws
\* 'User not found' into its own catch: it makes no provider call at all,
\* the System Fallback Chain included, and returns the sentinel, in both
\* variants.
C4_AbsentUserHardFail ==
  lookup = "absent" =>
    /\ Done
    /\ calls = <<>>
    /\ result = [audioUrl |-> "", duration |-> Len(req.text) \div 15]
    /\ ~rejected

\* No user, while the first vendor of the system chain has its key.
C4_Witness ==
  /\ Done
  /\ lookup = "absent"
  /\ variant = "later"
  /\ env["myshell"] # ""

----------------------------------------------------------------------------
(* C5 *)

\* C5 as stated: no vendor is invoked twice within one request.
C5_Original ==
  \A i, j \in CallIndexes : i < j => calls[i].vendor # calls[j].vendor

VendorCalls(v) == {i \in CallIndexes : calls[i].vendor = v}

\* C5 amended: within one request no block is attempted twice and blocks
\* are only entered in program order, each call after the first following a
\* failed one; a vendor can be invoked again by a later block: in the
\* later variant Groq up to three times (override, preference, system
\* chain) and MyShell, OpenAI, ElevenLabs up to twice (preference, system
\* chain); in the early variant no vendor is invoked twice.
C5_NoBlockRetried ==
  /\ \A i, j \in CallIndexes :
       i < j => /\ StepIndex(calls[i].step) < StepIndex(calls[j].step)
                /\ calls[i].outcome = "threw"
  /\ Cardinality(VendorCalls("groq")) <= 3
  /\ \A v \in KeyedVendors \ {"groq"} : Cardinality(VendorCalls(v)) <= 2
  /\ variant = "early" =>
       \A i, j \in CallIndexes : i < j => calls[i].vendor # calls[j].vendor

\* Groq invoked three times with the same process-wide key.
C5_Witness ==
  /\ Cardinality(VendorCalls("groq")) = 3
  /\ \A i \in VendorCalls("groq") : calls[i].apiKey = env["groq"]

----------------------------------------------------------------------------
(* C6 *)

\* The preference phase is behind the request: the user was found and the
\* override, if any, did not end the request.
PastPreference ==
  /\ lookup = "found"
  /\ pc \in {"awaitCall", "done"}
  /\ \A i \in CallIndexes :
       calls[i].step = "override" => calls[i].outcome = "threw"
  /\ pc = "awaitCall" => StepPhase(calls[Len(calls)].step) # "override"

\* The calls of the request that are not the character override's.
AfterOverride == {i \in CallIndexes : calls[i].step # "override"}

\* C6: in the preference phase the preferred vendor (MyShell, OpenAI, Groq
\* or ElevenLabs) is called with the user's own key if the user has one,
\* else with the process-wide key of that vendor, and is skipped only when
\* neither key exists: when one of the two keys exists, the first call after
\* the override is the preferred vendor's, with that key.
C6_PreferenceKeyOrder ==
  LET v == PreferredService(user)
      key == Or(UserApiKey(user, v), EnvApiKey(v))
  IN (PastPreference /\ v \in KeyedVendors /\ key # "") =>
       /\ AfterOverride # {}
       /\ LET first == CHOOSE i \in AfterOverride : \A k \in AfterOverride : i <= k
          IN calls[first].vendor = v /\ calls[first].apiKey = key

----------------------------------------------------------------------------
(* C7 *)

UsesProcessWideKey(c) ==
  c.vendor \in KeyedVendors /\ c.apiKey = env[c.vendor] /\ c.apiKey # ""

\* C7 as stated: no call of a request uses the process-wide key of a vendor
\* for which the requesting user has a key of their own.
C7_Original ==
  \A i \in CallIndexes :
    UsesProcessWideKey(calls[i]) => UserApiKey(user, calls[i].vendor) = ""

\* C7 amended: in the character override and in the preference phase a
\* process-wide key is used only when the user has no key of their own for
\* that vendor; the System Fallback Chain always uses the process-wide key,
\* whether or not the user has a key for that vendor.
C7_EnvKeyOnlyWithoutUserKey ==
  \A i \in CallIndexes :
    LET c == calls[i]
    IN /\ (StepPhase(c.step) # "system" /\ UsesProcessWideKey(c)) =>
            UserApiKey(user, c.vendor) = ""
       /\ (StepPhase(c.step) # "system" /\ UserApiKey(user, c.vendor) # "") =>
            c.apiKey = UserApiKey(user, c.vendor)
       /\ (StepPhase(c.step) = "system" /\ variant = "later") =>
            UsesProcessWideKey(c)

\* The preferred vendor called with the process-wide key by a user without
\* a key for it, although that user has a key and the process has none
\* for another vendor.
C7_Witness ==
  /\ variant = "later"
  /\ \E i \in PreferenceCalls :
       /\ UsesProcessWideKey(calls[i])
       /\ UserApiKey(user, calls[i].vendor) = ""
  /\ \E v \in KeyedVendors : UserApiKey(user, v) # "" /\ env[v] # ""

----------------------------------------------------------------------------
(* C8 *)

\* The arguments of a provider call are the request's, unmodified: the
\* text, the characterId and every option field the call passes.
SameArguments(c) ==
  /\ c.text = req.text
  /\ c.characterId = req.options.characterId
  /\ \A f \in DOMAIN c.options : c.options[f] = req.options[f]

----------------------------------------------------------------------------
(* C9 *)

\* The system chain was entered: the user was found and neither the
\* override nor the preferred vendor produced the result.
ReachedSystemChain ==
  /\ lookup = "found"
  /\ Done
  /\ \A i \in CallIndexes \ SystemCalls : calls[i].outcome = "threw"

----------------------------------------------------------------------------
(* C10 *)

\* C10 as stated: in the system chain of both variants a vendor is invoked
\* only if its process-wide API key is present.
C10_Original ==
  \A i \in SystemCalls : EnvApiKey(calls[i].vendor) # ""

\* C10 amended: in the later variant every system-chain call is gated by
\* the process-wide key of its vendor: a vendor without one is never
\* invoked, raises no error, and the vendors after it are still tried; the
\* early variant's chain has no gate: Bark is always invoked and Typecast
\* whenever Bark threw.
C10_SystemChainGate ==
  /\ ~rejected
  /\ variant = "later" =>
       /\ \A i \in SystemCalls : EnvApiKey(calls[i].vendor) # ""
       /\ (ReachedSystemChain /\ result.audioUrl = "") =>
            \A w \in KeyedVendors :
              env[w] # "" => \E k \in SystemCalls : calls[k].vendor = w
  /\ (variant = "early" /\ ReachedSystemChain) =>
       /\ \E k \in SystemCalls : calls[k].vendor = "bark"
       /\ (\E k \in SystemCalls : calls[k].vendor = "typecast") <=>
            (\E k \in SystemCalls :
               calls[k].vendor = "bark" /\ calls[k].outcome = "threw")

\* MyShell and Groq have no process-wide key and are passed over:
\* ElevenLabs is called, fails, and OpenAI is called after it.
C10_Witness ==
  /\ variant = "later"
  /\ env["myshell"] = "" /\ env["groq"] = ""
  /\ {calls[i].vendor : i \in SystemCalls} = {"elevenlabs", "openai"}

----------------------------------------------------------------------------
(* C11 *)

PendingCalls == {i \in CallIndexes : calls[i].outcome = "pending"}

\* The blocks before block j that did not make a call were skipped by
\* their own condition.
EarlierBlocksFailedOrSkipped(i) ==
  \A k \in 1..(StepIndex(calls[i].step) - 1) :
    \/ \E h \in 1..(i - 1) : calls[h].step = Chain[k] /\ calls[h].outcome = "threw"
    \/ ~StepGuard(Chain[k], user, req.options)

\* C11: within one request the vendors are tried one at a time in priority
\* order: at most one provider call is in flight, it is the last one made
\* and the request is waiting for it; a call starts only after every
\* earlier block of the chain failed or was skipped; after a call
\* succeeded the request is finished and no further provider is called.
C11_OneAtATimeInOrder ==
  /\ Cardinality(PendingCalls) <= 1
  /\ \A i \in PendingCalls : i = Len(calls) /\ pc = "awaitCall"
  /\ pc = "awaitCall" => PendingCalls = {Len(calls)}
  /\ \A i \in CallIndexes :
       /\ EarlierBlocksFailedOrSkipped(i)
       /\ \A h \in 1..(i - 1) :
            /\ calls[h].outcome = "threw"
            /\ StepIndex(calls[h].step) < StepIndex(calls[i].step)
       /\ calls[i].outcome = "ok" => i = Len(calls) /\ Done

\* A second call in flight after the first failed, with a block skipped
\* in between for lack of its key.
C11_Witness ==
  /\ variant = "later"
  /\ pc = "awaitCall"
  /\ Len(calls) = 2
  /\ calls[1].outcome = "threw"
  /\ calls[2].outcome = "pending"
  /\ StepIndex(calls[2].step) > StepIndex(calls[1].step) + 1
  /\ \E k \in (StepIndex(calls[1].step) + 1)..(StepIndex(calls[2].step) - 1) :
       StepPhase(Chain[k]) = "system" /\ env[StepVendor(Chain[k])] = ""

----------------------------------------------------------------------------
(* C12 *)

\* C12: in the preference phase only the vendor equal to the user's
\* preferred service (the variant's default when unset) is attempted: at
\* most one call is made between the character override and the system
\* chain, it is the preferred vendor's, and a call of any other vendor
\* belongs to the system chain (or is the override's Groq call).
C12_OnlyPreferredVendor ==
  /\ Cardinality(PreferenceCalls) <= 1
  /\ \A i \in PreferenceCalls :
       /\ calls[i].vendor = PreferredService(user)
       /\ \A h \in 1..(i - 1) : calls[h].step = "override"
       /\ \A h \in (i + 1)..Len(calls) : StepPhase(calls[h].step) = "system"
  /\ \A i \in CallIndexes :
       calls[i].vendor # PreferredService(user) =>
         \/ StepPhase(calls[i].step) = "system"
         \/ calls[i].step = "override"

\* The user prefers ElevenLabs and has keys for every vendor: ElevenLabs is
\* the only vendor called by preference, OpenAI is reached at the end of
\* the system chain.
C12_Witness ==
  /\ variant = "later"
  /\ lookup = "found"
  /\ user.preferredTtsService = "elevenlabs"
  /\ \A v \in KeyedVendors : UserApiKey(user, v) # ""
  /\ {calls[i].vendor : i \in PreferenceCalls} = {"elevenlabs"}
  /\ \E i \in SystemCalls : calls[i].vendor = "openai"

----------------------------------------------------------------------------
(* C17 *)

PreferenceUnset == lookup = "found" /\ user.preferredTtsService = ""

\* C17: with preferredTtsService unset, the early variant attempts no
\* user-specific vendor and its first call is the system chain's; the later
\* variant attempts MyShell in the preference phase whenever the user's or
\* the process-wide MyShell key exists (and the override did not end the
\* request), with the user's key before the process-wide one.
C17_UnsetPreferenceDefault ==
  PreferenceUnset =>
    /\ variant = "early" =>
         /\ PreferenceCalls = {}
         /\ pc \in {"awaitCall", "done"} =>
              calls # <<>> /\ calls[1].step = "sys_bark"
    /\ variant = "later" =>
         /\ \A i \in PreferenceCalls : calls[i].vendor = "myshell"
         /\ (PastPreference /\ Or(user.myshellApiKey, env["myshell"]) # "") =>
              \E i \in PreferenceCalls :
                /\ calls[i].step = "pref_myshell"
                /\ calls[i].apiKey = Or(user.myshellApiKey, env["myshell"])
         /\ (PastPreference /\ Or(user.myshellApiKey, env["myshell"]) = "") =>
              PreferenceCalls = {}

\* Later variant, preference unset, no user MyShell key: MyShell is called
\* in the preference phase with MYSHELL_API_KEY.
C17_Witness ==
  /\ PreferenceUnset
  /\ variant = "later"
  /\ user.myshellApiKey = ""
  /\ \E i \in PreferenceCalls :
       calls[i].vendor = "myshell" /\ calls[i].apiKey = env["myshell"]

----------------------------------------------------------------------------
(* C18 *)

\* C18: in the early variant the system chain calls Bark first and
\* Typecast second, Typecast only after Bark threw; when both throw the
\* result is {audioUrl: "", duration: floor(text.length/15)}, and a value
\* Bark or Typecast resolved to is the result.
C18_EarlyBarkThenTypecast ==
  variant = "early" =>
    /\ \A i \in SystemCalls :
         /\ calls[i].vendor \in {"bark", "typecast"}
         /\ calls[i].vendor = "bark" =>
              \A h \in SystemCalls : h >= i
         /\ calls[i].vendor = "typecast" =>
              /\ i > 1
              /\ calls[i - 1].vendor = "bark"
              /\ calls[i - 1].outcome = "threw"
    /\ ReachedSystemChain =>
         /\ SystemCalls # {}
         /\ LET last == calls[Len(calls)]
            IN \/ /\ last.vendor = "typecast"
                  /\ last.outcome = "threw"
                  /\ Cardinality(SystemCalls) = 2
                  /\ result = [audioUrl |-> "", duration |-> Len(req.text) \div 15]
               \/ /\ last.outcome = "ok"
                  /\ result.audioUrl = "data:audio/" \o last.vendor

\* Bark threw, Typecast threw, and the sentinel of a 32-character text came back.
C18_Witness ==
  /\ variant = "early"
  /\ ReachedSystemChain
  /\ Cardinality(SystemCalls) = 2
  /\ calls[Len(calls)].vendor = "typecast"
  /\ calls[Len(calls)].outcome = "threw"
  /\ result = [audioUrl |-> "", duration |-> 2]

----------------------------------------------------------------------------
(* C13 *)

\* The request of the example: generateTTS("yo", "u1", {characterId: "cypher"})
\* for a user u1 without a Groq key while GROQ_API_KEY is set.
C13_Example ==
  /\ variant = "later"
  /\ req.text = <<"y", "o">>
  /\ req.userId = "u1"
  /\ req.options.characterId = "cypher"
  /\ RequestUser.groqApiKey = ""
  /\ env["groq"] # ""

\* C13 as stated: when the Groq call of the example succeeds, the result is
\* the forced Groq call's and its duration is floor(2 / 15) = 0, the length of
\* the request text divided by 15.
C13_Original ==
  (C13_Example /\ Done /\ calls # <<>> /\ calls[1].outcome = "ok") =>
    /\ calls[1].step = "override"
    /\ ReturnedBy(1)
    /\ result.duration = Len(req.text) \div 15
    /\ result.duration = 0

\* C13 amended: when the Groq call of the example succeeds, the result is the
\* forced Groq call's, made with GROQ_API_KEY, and its duration is
\* floor(32 / 15) = 2: the length of the text sent to the vendor,
\* "[processing] yo [systems_online]", divided by 15.  For every request a
\* successful Groq result has the duration floor(length of the cleaned text
\* / 15), which for 'cypher' counts the added markers.
C13_ForcedGroqDuration ==
  /\ (C13_Example /\ Done /\ calls # <<>> /\ calls[1].outcome = "ok") =>
       /\ calls[1].step = "override"
       /\ calls[1].apiKey = SystemKeyOf("groq")
       /\ Len(calls) = 1
       /\ ReturnedBy(1)
       /\ result.audioUrl # ""
       /\ result.duration = 2
       /\ result.duration = (Len(req.text) + 30) \div 15
  /\ \A i \in CallIndexes :
       (Done /\ calls[i].vendor = "groq" /\ calls[i].outcome = "ok") =>
         result.duration =
           IF calls[i].characterId = "cypher"
           THEN (Len(calls[i].text) + 30
                   + 11 * Cardinality({k \in 1..Len(calls[i].text) :
                                         calls[i].text[k] = "!"})) \div 15
           ELSE Len(calls[i].text) \div 15

\* The example's request answered by the forced Groq call.
C13_Witness ==
  /\ C13_Example
  /\ Done
  /\ Len(calls) = 1
  /\ calls[1].step = "override"
  /\ calls[1].outcome = "ok"
  /\ result.audioUrl = "data:audio/groq"

----------------------------------------------------------------------------
(* C20 *)

\* The tables of the claim, in hundredths; 100 (1.0) for every other key.
C20_BaseSpeed(characterId) ==
  CASE characterId = "cypher" -> 75
    [] characterId = "venom" -> 90
    [] characterId = "razor" -> 110
    [] OTHER -> 100

C20_StyleModifier(voiceStyle) ==
  CASE voiceStyle = "aggressive" -> 120
    [] voiceStyle = "smooth" -> 95
    [] voiceStyle = "intense" -> 115
    [] voiceStyle = "playful" -> 110
    [] OTHER -> 100

C20_Clamped(x) == IF x < 500000 THEN 500000 ELSE IF x > 2000000 THEN 2000000 ELSE x

C20_Expected ==
  C20_Clamped(C20_BaseSpeed(groq.characterId)
                * C20_StyleModifier(groq.options.voiceStyle)
                * (IF groq.options.speedMultiplier = -1
                   THEN 100
                   ELSE groq.options.speedMultiplier))

\* C20: the speed the Groq client sends to the vendor is
\* clamp(baseSpeed(characterId) * styleModifier(voiceStyle) * speedMultiplier,
\* 0.5, 2.0), where an unknown characterId, an unknown or missing voiceStyle
\* and a missing speedMultiplier each count 1.0; for every input the speed
\* sent is a number in [0.5, 2.0].
C20_SpeedFormula ==
  groq.pc # "idle" =>
    /\ groq.request.speed.kind = "number"
    /\ groq.request.speed.n = C20_Expected
    /\ groq.request.speed.n >= 500000
    /\ groq.request.speed.n <= 2000000

\* The same statement for the character ids that name no member of
\* Object.prototype.
C20_SpeedFormulaOwnKeys ==
  (groq.pc # "idle" /\ groq.characterId \notin ObjectPrototypeKeys) =>
    /\ groq.request.speed = Number(C20_Expected)
    /\ groq.request.speed.n >= 500000
    /\ groq.request.speed.n <= 2000000

\* A request whose product exceeds 2.0 and is sent as 2.0 (razor, aggressive,
\* multiplier 3.0: 3.96).
C20_Witness ==
  /\ groq.pc = "awaitSpeech"
  /\ groq.characterId = "razor"
  /\ groq.options.voiceStyle = "aggressive"
  /\ groq.options.speedMultiplier = 300
  /\ groq.request.speed = Number(2000000)

----------------------------------------------------------------------------
(* C14, C15, C16 *)

EventIndexes == 1..Len(events)

\* Getter calls i < j of one vendor with the same API key.
SameKeyGets(i, j) ==
  /\ i < j
  /\ events[i].op = "get"
  /\ events[j].op = "get"
  /\ events[i].vendor = events[j].vendor
  /\ events[i].apiKey = events[j].apiKey

ClearBetween(i, j) == \E k \in (i + 1)..(j - 1) : events[k].op = "clear"

\* C14: a vendor's getter called twice with an identical API key and no
\* clear in between returns the same instance and the factory runs for the
\* first of the calls only; called with a different API key it returns a
\* different instance.
C14_GetterMemoizes ==
  \A i, j \in EventIndexes :
    /\ (SameKeyGets(i, j) /\ ~ClearBetween(i, j)) =>
         /\ events[j].instance = events[i].instance
         /\ ~events[j].created
    /\ (/\ i < j
        /\ events[i].op = "get"
        /\ events[j].op = "get"
        /\ events[i].vendor = events[j].vendor
        /\ events[i].apiKey # events[j].apiKey) =>
         events[j].instance # events[i].instance
    /\ (events[i].op = "get" /\ ~events[i].created) =>
         \E k \in 1..(i - 1) : SameKeyGets(k, i) /\ ~ClearBetween(k, i)

\* One key asked for twice, then another key of the same vendor.
C14_Witness ==
  /\ Len(events) >= 3
  /\ SameKeyGets(1, 2)
  /\ events[1].created
  /\ events[2].instance = events[1].instance
  /\ events[3].op = "get"
  /\ events[3].vendor = events[1].vendor
  /\ events[3].apiKey # events[1].apiKey
  /\ events[3].created

\* C15: after clearUserInstances, a getter called with a key that was cached
\* before the clear constructs a new instance, which is not the one returned
\* before the clear; this holds for the getter of every vendor.
C15_ClearForcesNewInstance ==
  \A i, j \in EventIndexes :
    (SameKeyGets(i, j) /\ ClearBetween(i, j)) =>
      /\ events[j].instance # events[i].instance
      /\ (~\E k \in (i + 1)..(j - 1) : SameKeyGets(k, j) /\ ~ClearBetween(k, j))
           => events[j].created

\* An ElevenLabs instance asked for, the cache cleared, the same key asked
\* for again.
C15_Witness ==
  /\ Len(events) = 3
  /\ SameKeyGets(1, 3)
  /\ events[1].vendor = "elevenlabs"
  /\ events[2].op = "clear"
  /\ events[3].created
  /\ events[3].instance # events[1].instance

\* C16: clearUserInstances(userId) leaves no instance in any vendor map,
\* whichever userId is passed: the instances made for another user's keys and
\* for the process-wide keys are dropped as well.
C16_ClearDropsEverything ==
  (events # <<>> /\ events[Len(events)].op = "clear") =>
    \A v \in KeyedVendors : instances[v] = EmptyMap

\* u1's clear after instances were made for u2's key and a process-wide key.
C16_Witness ==
  /\ Len(events) = 3
  /\ events[1].op = "get"
  /\ events[1].apiKey = OtherUserKeyOf(events[1].vendor)
  /\ events[2].op = "get"
  /\ events[2].apiKey = SystemKeyOf(events[2].vendor)
  /\ events[3].op = "clear"
  /\ events[3].userId = "u1"
  /\ \A v \in KeyedVendors : instances[v] = EmptyMap

----------------------------------------------------------------------------
(* C19 *)

\* A round result has arrived whose audioUrl is missing, empty, or at most
\* 100 characters long.
C19_ResultWithoutAudio ==
  /\ page.pc = "settled"
  /\ page.result # Missing
  /\ \/ page.result[1].audioUrl = Missing
     \/ Len(page.result[1].audioUrl[1]) <= 100

\* C19: when the round result arrives with audioUrl "" or any URL of at most
\* 100 characters, handleRecordingComplete still takes over the AI response
\* of the result, ends with the round-complete notice carrying both scores,
\* shows no error notice, leaves isTranscribing and isAIResponding off, and
\* neither sets isPlayingAudio to true nor starts an autoplay timer.
C19_EmptyAudioNonFatal ==
  C19_ResultWithoutAudio =>
    LET r == page.result[1]
        last == page.toasts[Len(page.toasts)]
    IN /\ Truthy(r.aiResponse) => page.aiResponse = r.aiResponse[1]
       /\ page.currentAiAudio = r.audioUrl
       /\ page.toasts # <<>>
       /\ last.title = "Round Complete!"
       /\ last.description =
            "Score: You " \o ToString(OrZero(r.userScore))
              \o " - AI " \o ToString(OrZero(r.aiScore))
       /\ \A k \in 1..Len(page.toasts) : page.toasts[k].title # "Battle Error"
       /\ page.playUpdates = 0
       /\ page.timer = "none"
       /\ ~page.isTranscribing
       /\ ~page.isAIResponding

\* A result with an AI response, scores and a URL of exactly 100 characters,
\* on a page where no audio was playing.
C19_Witness ==
  /\ C19_ResultWithoutAudio
  /\ page.result[1].audioUrl = Some(AudioUrl100)
  /\ page.aiResponse = "Your flow is frozen, mine is chosen."
  /\ page.result[1].userScore = Some(72)
  /\ ~page.isPlayingAudio
  /\ page.toasts[Len(page.toasts)].title = "Round Complete!"

----------------------------------------------------------------------------
(* C21 *)

\* C21: whenever the vendor call, the reading of its body or the writing of
\* the file fails, the Groq client's generateTTS ends by throwing its wrapped
\* error and returns no result, the empty-audio result included; a result is
\* returned only by a call in which nothing failed.
C21_GroqRaises ==
  groq.pc = "done" =>
    IF groq.failure # ""
    THEN /\ groq.error \in {"Groq TTS generation failed: " \o m :
                              m \in GroqErrorMessages}
         /\ groq.result = NoResult
    ELSE /\ groq.error = ""
         /\ groq.result.audioUrl # ""
         /\ groq.result.duration = Len(groq.request.input) \div 15

\* The vendor answered, and reading the body of the answer failed.
C21_Witness ==
  /\ groq.pc = "done"
  /\ groq.failure = "arrayBuffer"
  /\ groq.error # ""
  /\ groq.result = NoResult

----------------------------------------------------------------------------
(* C22 *)

C22_ListMembers(voices) == {voices[k] : k \in 1..Len(voices)}

\* The voice the claim allows for a character id and a declared gender.
C22_Allowed(characterId, gender) ==
  CASE characterId = "razor" -> {"Cheyenne-PlayAI"}
    [] characterId = "venom" -> {"Thunder-PlayAI"}
    [] characterId = "silk" -> {"Basil-PlayAI"}
    [] characterId = "cypher" -> {"Fritz-PlayAI"}
    [] OTHER -> IF gender = "female"
                THEN C22_ListMembers(FemaleVoices)
                ELSE C22_ListMembers(MaleVoices)

\* C22: the voice the Groq client sends is the fixed table entry for razor,
\* venom, silk and cypher whatever gender is declared; for every other
\* character id it is an element of the female voice list when the gender is
\* 'female' and of the male voice list otherwise.
C22_VoiceSelection ==
  groq.pc # "idle" =>
    groq.request.voice \in C22_Allowed(groq.characterId, groq.options.gender)

\* The same statement for the character ids that name no member of
\* Object.prototype.
C22_VoiceSelectionOwnKeys ==
  (groq.pc # "idle" /\ groq.characterId \notin ObjectPrototypeKeys) =>
    groq.request.voice \in C22_Allowed(groq.characterId, groq.options.gender)

\* An id of no table with gender 'female' gets the last voice of the female
\* list.
C22_Witness ==
  /\ groq.pc = "awaitSpeech"
  /\ groq.characterId = "mc-nova"
  /\ groq.options.gender = "female"
  /\ groq.request.voice = "Deedee-PlayAI"

----------------------------------------------------------------------------
(* C26 *)

SucceededCalls == {i \in CallIndexes : calls[i].outcome = "ok"}

\* C26: a finished request returns exactly the value of the first provider
\* call that succeeded, audioUrl and duration as the provider gave them; that
\* call is the last one made and every call before it threw.  The sentinel
\* {audioUrl: "", duration: floor(text.length / 15)} is returned only when no
\* call succeeded: the user lookup failed, or every block's call threw or was
\* skipped.
C26_FirstSuccessUnmodified ==
  Done =>
    IF SucceededCalls # {}
    THEN /\ SucceededCalls = {Len(calls)}
         /\ result = calls[Len(calls)].value
         /\ result.audioUrl # ""
         /\ \A i \in 1..(Len(calls) - 1) : calls[i].outcome = "threw"
    ELSE /\ result = [audioUrl |-> "", duration |-> Len(req.text) \div 15]
         /\ \A i \in CallIndexes : calls[i].outcome = "threw"
         /\ lookup = "found" =>
              \A j \in 1..Len(Chain) :
                StepGuard(Chain[j], user, req.options) =>
                  \E i \in CallIndexes : calls[i].step = Chain[j]

\* A provider answered after two others threw, with a duration that is not
\* the estimate for the request text.
C26_Witness ==
  /\ Done
  /\ Len(calls) = 3
  /\ calls[3].outcome = "ok"
  /\ result = calls[3].value
  /\ result.duration # Len(req.text) \div 15

----------------------------------------------------------------------------
(* C27 *)

\* The most provider calls one request makes.
C27_MostCalls == IF variant = "later" THEN 6 ELSE 3

\* C27: provided each storage and provider call eventually returns or
\* throws, every generateTTS request terminates; it makes at most 6 provider
\* calls in the later variant (the override, one preference block, the four
\* blocks of the system chain) and at most 3 in the early variant, each call
\* from a block after the block of the call before it.
C27_Terminates ==
  /\ [](/\ Len(calls) <= C27_MostCalls
        /\ Cardinality({i \in CallIndexes : StepPhase(calls[i].step) = "override"}) <= 1
        /\ Cardinality(PreferenceCalls) <= 1
        /\ \A i, j \in CallIndexes :
             i < j => StepIndex(calls[i].step) < StepIndex(calls[j].step))
  /\ (pc = "awaitUser") ~> (pc = "done")

\* A request of the later variant that made all six calls.
C27_Witness ==
  /\ Done
  /\ variant = "later"
  /\ Len(calls) = 6
  /\ calls[1].step = "override"
  /\ calls[2].step = "pref_myshell"
  /\ calls[6].step = "sys_openai"

----------------------------------------------------------------------------
(* C23 *)

\* C23: a step of generateTTS, useSystemTTS or testUserAPIKey, a getter's
\* insertion or the failure of the call made through an instance included,
\* keeps every cached key with the instance stored for it; only
\* clearUserInstances removes entries, so between two clears the set of
\* cached keys only grows.
C23_PureMemoization ==
  [][events' = events =>
       \A v \in KeyedVendors :
         \A k \in DOMAIN instances[v] :
           /\ k \in DOMAIN instances'[v]
           /\ instances'[v][k] = instances[v][k]]_vars

\* The call a request made through a cached instance threw, no clear has
\* happened, and the instance is still the one cached for its key.
C23_Witness ==
  /\ events = <<>>
  /\ \E t \in Tasks :
       /\ tasks[t].failures > 0
       /\ tasks[t].usedInstance # NoInstance
       /\ \E v \in KeyedVendors :
            \E k \in DOMAIN instances[v] : instances[v][k] = tasks[t].usedInstance

----------------------------------------------------------------------------
(* C24 *)

\* The getMyShellInstance calls so far, by their place in the event log.
MyShellGets == {i \in 1..Len(events) : events[i].op = "get"}

\* No clearUserInstances between events i and j.
NoClearBetween(i, j) == \A k \in (i + 1)..(j - 1) : events[k].op = "get"

\* C24: the MyShell cache key `${apiKey}_${voiceCloning}` is an injective
\* composite: two getMyShellInstance calls return the same instance only when
\* their apiKey and their voiceCloning flag are both equal, and, with no
\* clearUserInstances between them, always when both are equal; this for
\* every key, keys containing '_' and keys ending in '_true' or '_false'
\* included.
C24_InjectiveKey ==
  \A i, j \in MyShellGets :
    i < j =>
      /\ events[i].instance = events[j].instance =>
           /\ events[i].apiKey = events[j].apiKey
           /\ events[i].voiceCloning = events[j].voiceCloning
      /\ (/\ events[i].apiKey = events[j].apiKey
          /\ events[i].voiceCloning = events[j].voiceCloning
          /\ NoClearBetween(i, j)) =>
           events[i].instance = events[j].instance

\* 'k' with the flag set, 'k_true' with the flag unset and 'k' with the flag
\* unset gave three instances, and 'k' with the flag set again gave the first.
C24_Witness ==
  /\ Len(events) = 4
  /\ events[1].op = "get" /\ events[1].apiKey = "k" /\ events[1].voiceCloning
  /\ events[2].op = "get" /\ events[2].apiKey = "k_true" /\ ~events[2].voiceCloning
  /\ events[3].op = "get" /\ events[3].apiKey = "k" /\ ~events[3].voiceCloning
  /\ events[4].op = "get" /\ events[4].apiKey = "k" /\ events[4].voiceCloning
  /\ events[4].instance = events[1].instance
  /\ Cardinality({events[i].instance : i \in 1..3}) = 3

----------------------------------------------------------------------------
(* C25 *)

\* C25: under every interleaving of generateTTS and testUserAPIKey requests
\* with clearUserInstances, every instance lookup yields a defined
\* instance, the instance a map holds for a key is the one built for that
\* key and no other key shares it, two lookups of the same vendor and key
\* with no clear between them yield the same instance, and a request
\* completes its call on the instance it looked up even when the cache was
\* cleared while the call was pending.
C25_ConcurrentCache ==
  /\ [](/\ \A t \in Tasks :
             /\ \A n \in 1..Len(tasks[t].gets) : tasks[t].gets[n].defined
             /\ tasks[t].pc = "awaitCall" =>
                  tasks[t].held.id = tasks[t].gets[Len(tasks[t].gets)].instance
        /\ \A v \in KeyedVendors :
             \A k, l \in DOMAIN instances[v] :
               /\ instances[v][k].id # 0
               /\ CacheKey(v, instances[v][k].apiKey, instances[v][k].voiceCloning) = k
               /\ instances[v][k].id = instances[v][l].id => k = l
        /\ \A t, u \in Tasks :
             \A n \in 1..Len(tasks[t].gets), m \in 1..Len(tasks[u].gets) :
               (/\ tasks[t].gets[n].vendor = tasks[u].gets[m].vendor
                /\ tasks[t].gets[n].key = tasks[u].gets[m].key
                /\ tasks[t].gets[n].epoch = tasks[u].gets[m].epoch) =>
                 tasks[t].gets[n].instance = tasks[u].gets[m].instance)
  /\ [][\A t \in Tasks :
         (tasks[t].pc = "awaitCall" /\ tasks'[t] # tasks[t]) =>
           tasks'[t].usedInstance = tasks[t].held]_vars

\* Two requests looked up the same vendor and key and got the same
\* instance; the cache was cleared; the first request still waits for its
\* call on that instance, which the map no longer holds, and the second
\* completed its call on it.
C25_Witness ==
  /\ tasks["t1"].pc = "awaitCall"
  /\ Len(tasks["t1"].gets) = 1
  /\ tasks["t1"].gets[1].vendor \in KeyedVendors
  /\ tasks["t1"].gets[1].key \notin DOMAIN instances[tasks["t1"].gets[1].vendor]
  /\ tasks["t1"].gets[1].epoch < Len(events)
  /\ tasks["t2"].kind = "test"
  /\ tasks["t2"].pc = "done"
  /\ Len(tasks["t2"].gets) = 1
  /\ tasks["t2"].gets[1] = tasks["t1"].gets[1]
  /\ tasks["t2"].usedInstance = tasks["t1"].held
  /\ tasks["t1"].held.id # 0

----------------------------------------------------------------------------
(* C28 *)

\* The sentinel of a task's request.
TaskSentinel(t) == [audioUrl |-> "", duration |-> Len(tasks[t].text) \div 15]

\* C28: the step in which storage.getUser returns no user to a request ends
\* the request without a provider call and without touching the instance
\* cache: generateTTS returns the sentinel {audioUrl: "", duration:
\* floor(text.length / 15)} whatever process-wide keys are set, and
\* testUserAPIKey returns false; neither throws.
C28_AbsentUserFrame ==
  [][\A t \in Tasks :
       (tasks[t].lookup = "pending" /\ tasks'[t].lookup = "absent") =>
         /\ instances' = instances
         /\ nextInstance' = nextInstance
         /\ tasks'[t].pc = "done"
         /\ tasks'[t].gets = <<>>
         /\ ~tasks'[t].rejected
         /\ tasks'[t].kind = "generate" =>
              tasks'[t].result = [audioUrl |-> "",
                                  duration |-> Len(tasks[t].text) \div 15]
         /\ tasks'[t].kind = "test" => tasks'[t].verdict = "false"]_vars

\* A request for a user that does not exist returned the sentinel although
\* every process-wide key is set, while the other request waits for a call
\* on a cached instance.
C28_Witness ==
  /\ tasks["t2"].kind = "generate"
  /\ tasks["t2"].pc = "done"
  /\ tasks["t2"].lookup = "absent"
  /\ tasks["t2"].result = TaskSentinel("t2")
  /\ \A v \in CachedVendors : env[v] # ""
  /\ tasks["t1"].pc = "awaitCall"
  /\ \E v \in CachedVendors : instances[v] # EmptyMap

----------------------------------------------------------------------------
(* C29 *)

\* The finished testUserAPIKey requests.
TestsDone == {t \in Tasks : tasks[t].kind = "test" /\ tasks[t].pc = "done"}

\* C29: testUserAPIKey(userId, vendor) returns true only when the user has
\* an own key for the vendor and the vendor's test, made on the instance of
\* that key, succeeded.  It returns false, and does not throw, when the user
\* has no key for the vendor, whatever process-wide key is set, and when
\* the vendor's test throws.  The only key it looks an instance up with is
\* the user's.
C29_TestUserAPIKey ==
  \A t \in TestsDone :
    LET tk == tasks[t]
        own == UserApiKey(storage[tk.userId], tk.service)
    IN /\ tk.verdict = "true" =>
            /\ own # ""
            /\ tk.tested = "true"
            /\ tk.usedInstance.apiKey = own
       /\ (tk.lookup = "found" /\ own = "") =>
            /\ tk.verdict = "false"
            /\ ~tk.rejected
            /\ tk.gets = <<>>
       /\ tk.tested = "threw" => (tk.verdict = "false" /\ ~tk.rejected)
       /\ \A k \in 1..Len(tk.gets) :
            /\ tk.gets[k].vendor = tk.service
            /\ tk.gets[k].apiKey = own
            /\ tk.gets[k].apiKey # EnvApiKey(tk.service)
       /\ Len(tk.gets) <= 1

\* The vendor's test threw for a user with an own key, and the request
\* returned false.
C29_Witness ==
  /\ tasks["t2"].kind = "test"
  /\ tasks["t2"].pc = "done"
  /\ tasks["t2"].tested = "threw"
  /\ tasks["t2"].verdict = "false"
  /\ UserApiKey(storage[tasks["t2"].userId], tasks["t2"].service) # ""

----------------------------------------------------------------------------
(* C30 *)

\* The ways moderateContent ends without a reply of the classifier.
ModerationFailures == {"noKey", "notOk", "fetchRejected", "jsonRejected", "malformed"}

\* C30 as stated: isSafe is false only when the classifier's reply starts
\* with 'unsafe'.
C30_Original ==
  (moderation.pc = "done" /\ ~moderation.moderationResult.isSafe) =>
    StartsWith(moderation.reply, <<"u", "n", "s", "a", "f", "e">>)

\* C30 amended: moderateContent never rejects, and it returns isSafe: false
\* only when the classifier's reply, with surrounding whitespace trimmed and
\* letter case ignored, starts with 'unsafe'.  A missing API key, a response
\* that is not ok, a thrown error and any other reply yield isSafe: true,
\* and for isSafe: true filterContent returns the content unchanged with
\* wasFlagged: false.
C30_FailsOpen ==
  moderation.pc = "done" =>
    /\ ~moderation.rejected
    /\ ~moderation.moderationResult.isSafe =>
         /\ moderation.outcome = "reply"
         /\ StartsWith(ToLowerCase(Trim(moderation.reply)),
                       <<"u", "n", "s", "a", "f", "e">>)
    /\ moderation.outcome \in ModerationFailures =>
         moderation.moderationResult.isSafe
    /\ moderation.moderationResult.isSafe =>
         /\ moderation.filtered.content = moderation.content
         /\ ~moderation.filtered.wasFlagged

\* A strict-level call whose response body had no choices: the TypeError
\* was caught and the content came back unchanged.
C30_Witness ==
  /\ moderation.pc = "done"
  /\ moderation.outcome = "malformed"
  /\ moderation.safetyLevel = "strict"
  /\ moderation.moderationResult.isSafe
  /\ moderation.filtered = [content |-> moderation.content, wasFlagged |-> FALSE,
                            reason |-> <<>>]

====
